---- MODULE Spec2Model ----
(***************************************************************************)
(* Model of the workflow engine of backend_com                             *)
(* (src/backend/backend_com/orchestration/workflow_engine.py).             *)
(*                                                                         *)
(* One WorkflowEngine holds one defined workflow of three steps.  The      *)
(* coroutines of the engine are modelled from one suspension point (an     *)
(* await that yields to the event loop) to the next: code between two      *)
(* awaits runs without interleaving, exactly as under asyncio.  The        *)
(* outcome of a step's condition and of each attempt of its action is an   *)
(* input, drawn when the call returns.                                     *)
(***************************************************************************)
EXTENDS Integers, Sequences, FiniteSets, TLC

\* ---------------------------------------------------------------- bounds
MaxRetries == 1      \* largest max_retries a step of the workflow declares
MaxRuns == 2         \* execute_workflow is called at most this many times
MaxTime == 2         \* the wall clock (time.time()) takes values 1..MaxTime
MaxCleanups == 1     \* cleanup_completed_workflows is called at most this many times
MaxFailedCalls == 1  \* execute_workflow is called at most this many times with an undefined name
MaxFlows == 1        \* domain flows of the orchestrators are run at most this many times
MaxAnswerFlows == 2  \* create_answer_flow runs that overlap on one question
MaxDepth == 2        \* mappings and lists are nested this deep in the data given to _sanitize_log_data
MaxListLen == 2      \* longest list in that data
MaxRefusedCalls == 1    \* pause_workflow and resume_workflow return False at most this many times
MaxStatusCalls == 2     \* get_workflow_status is called at most this many times
MaxCancelCalls == 1     \* Coordinator.cancel_workflow is called at most this many times
MaxBackoffRetries == 3  \* largest max_retries of the workflows run to observe the backoff

SecondsPerHour == 3600

\* ------------------------------------------------------------ vocabulary
StepNames == {"A", "B", "C"}
Order == <<"A", "B", "C">>          \* the steps list, in declaration order
Runs == 1..MaxRuns                  \* workflow ids, in the order generated

WorkflowState == {"pending", "running", "completed", "failed", "cancelled", "paused"}
StepState == {"pending", "running", "completed", "failed", "skipped", "retrying"}
TerminalStates == {"completed", "failed", "cancelled"}

CondOutcomes == {"true", "false", "raise"}

VARIABLES
    workflow_definitions, \* the declared fields of the steps of the defined workflow
    parallel_execution,   \* the flag the caller passes to execute_workflow
    step,                 \* run state of the WorkflowStep objects of the definition
    active_workflows,     \* keys of WorkflowEngine._active_workflows
    wr,                   \* wr[r]: the WorkflowResult object of run r
    main,                 \* main[r]: the coroutine _execute_steps of run r
    task,                 \* task[r][s]: the coroutine _execute_single_step of step s in run r
    now,                  \* last reading of time.time()
    calls,                \* history: calls[r][s] = invocations of s's action in run r
    launched,             \* history: steps of run r in the order they were started
    condres,              \* history: what s's condition returned in run r
    waits,                \* history: the backoff sleeps of s in run r
    cancelled,            \* history: cancel_workflow(r) has returned True
    executions,           \* how many execute_workflow calls the caller makes
    cleanups,             \* number of cleanup_completed_workflows calls so far
    cleanup_last,         \* history: the argument and the return value of the last of them
    outcomes,             \* history: how the attempts of s's action ended in run r
    step0,                \* history: the steps' run state when run r began
    raised,               \* history: the exceptions execute_workflow calls have raised
    refused,              \* history: the pause and resume calls that returned False
    flow,                 \* flow[f]: the f-th domain flow run of an orchestrator
    coord_active,         \* keys of Coordinator._active_workflows
    coord_start,          \* coord_start[f]: "start_time" of the entry of flow f, 0 without entry
    status_seen,          \* history: what the get_workflow_status calls returned
    audit,                \* the records handed to persistence_gateway.create_log_entry
    built,                \* the OrchestrationResult the last constructor call returned
    respostas_count,      \* "respostas_count" of the question document in the store
    current_count,        \* current_count[f]: the local of _update_question_answer_count in flow f
    documents,            \* history: the documents the flows' steps have created
    cancel_seen,          \* history: what the Coordinator.cancel_workflow calls returned
    sanitize_in,          \* the argument of a _sanitize_log_data call
    sanitize_out          \* what the call returned

vars == <<workflow_definitions, parallel_execution, executions, step, active_workflows,
          wr, main, task, now, calls, launched, condres, waits, cancelled, cleanups,
          cleanup_last, outcomes, step0, raised, refused, status_seen,
          flow, coord_active, coord_start, audit,
          built, respostas_count, current_count, documents, cancel_seen,
          sanitize_in, sanitize_out>>

\* ------------------------------------------------------------- helpers
RECURSIVE Pow2(_)
Pow2(n) == IF n = 0 THEN 1 ELSE 2 * Pow2(n - 1)

Range(f) == {f[i] : i \in DOMAIN f}

\* d[key] = value on a Python dict kept as the sequence of its items: a new
\* key is appended, an existing key keeps its position.
DictPut(d, e) ==
    IF \E i \in DOMAIN d : d[i].name = e.name
    THEN [i \in DOMAIN d |-> IF d[i].name = e.name THEN e ELSE d[i]]
    ELSE Append(d, e)

DictKeys(d) == {d[i].name : i \in DOMAIN d}

DictGet(d, k) == d[CHOOSE i \in DOMAIN d : d[i].name = k]

\* the step names of a set, as the list in the order of the steps list
RECURSIVE InOrder(_, _)
InOrder(S, i) ==
    IF i > Len(Order) THEN <<>>
    ELSE (IF Order[i] \in S THEN <<Order[i]>> ELSE <<>>) \o InOrder(S, i + 1)

\* ------------------------------------------------- the defined workflow
\* WorkflowStep, declared fields (timeout: whether a timeout is set;
\* condition: none, an ordinary predicate, or a coroutine function; sync:
\* function is an ordinary callable, not a coroutine function)
StepDef(deps, cf, mr, to, cond) ==
    [depends_on |-> deps, can_fail |-> cf, max_retries |-> mr, timeout |-> to,
     condition |-> cond, sync |-> FALSE]

NoDeps == [s \in StepNames |-> {}]

\* dependency graphs of the workflows executed in parallel mode: none, a
\* join, a single edge, a chain, a cycle, an undefined name
DepGraphs ==
    { NoDeps,
      [NoDeps EXCEPT !["C"] = {"A", "B"}],
      [NoDeps EXCEPT !["C"] = {"B"}],
      [NoDeps EXCEPT !["B"] = {"A"}, !["C"] = {"B"}],
      [NoDeps EXCEPT !["B"] = {"C"}, !["C"] = {"B"}],
      [NoDeps EXCEPT !["C"] = {"X"}] }

\* which steps may fail without failing the workflow
CanFailChoices ==
    {[s \in StepNames |-> s \in S] : S \in {{}, {"A"}, {"B"}, StepNames}}

\* at most one step retries: A with a timeout set, or B without one
RetryChoices ==
    {[s \in StepNames |-> [max_retries |-> 0, timeout |-> FALSE]]} \cup
    {[s \in StepNames |-> IF s = x THEN [max_retries |-> n, timeout |-> (x = "A")]
                                    ELSE [max_retries |-> 0, timeout |-> FALSE]] :
        x \in {"A", "B"}, n \in 1..MaxRetries}

\* at most one step has a condition: an ordinary predicate on A or C, a
\* coroutine function on B
CondChoices ==
    {[s \in StepNames |-> "none"]} \cup
    {[s \in StepNames |-> IF s = x THEN (IF x = "B" THEN "async" ELSE "sync") ELSE "none"] :
        x \in StepNames}

Templates(graphs) ==
    {[s \in StepNames |-> StepDef(g[s], cf[s], rt[s].max_retries, rt[s].timeout, cd[s])] :
        g \in graphs, cf \in CanFailChoices, rt \in RetryChoices, cd \in CondChoices}

\* a workflow whose steps declare neither retries nor conditions
Simple(wf) ==
    \A s \in StepNames : wf[s].max_retries = 0 /\ wf[s].condition = "none"

Input(wf, par, n) == [wf |-> wf, parallel |-> par, executions |-> n]

\* the inputs of a behaviour: the workflow given to define_workflow, the
\* mode the execute_workflow calls ask for, and how many such calls are made
\* one after the other (only the simple workflows are executed again, and
\* sequentially)
Inputs ==
    {Input(wf, FALSE, 1) : wf \in Templates({NoDeps})} \cup
    {Input(wf, TRUE, 1) : wf \in Templates(DepGraphs)} \cup
    {Input(wf, FALSE, n) : wf \in {t \in Templates({NoDeps}) : Simple(t)},
                           n \in 2..MaxRuns}

\* WorkflowStep, run-state defaults (workflow_engine.py 49, 57-61)
NewStep == [state |-> "pending", retry_count |-> 0, result |-> FALSE, error |-> "none"]

\* no WorkflowResult exists yet for a run that was not started
NoResult ==
    [state |-> "none", steps_results |-> <<>>, total_steps |-> 0, completed_steps |-> 0,
     failed_steps |-> 0, skipped_steps |-> 0, end_time |-> 0, errors |-> <<>>]

NoMain == [pc |-> "idle", i |-> 1, pending |-> {}, completed |-> {}, running |-> {},
           ready |-> {}]

NoTask == [pc |-> "none", attempt |-> 0]

\* ids of the domain flow runs, in the order generated
FlowIds == 1..(IF MaxFlows > MaxAnswerFlows THEN MaxFlows ELSE MaxAnswerFlows)

\* no OrchestrationResult was built yet
NoOutcome ==
    [success |-> FALSE, status |-> "none", errors |-> <<>>, steps_completed |-> 0,
     total_steps |-> 0, data |-> {}]

\* a flow that was not started
NoFlow ==
    [type |-> "none", pc |-> "idle", at |-> 0, opt1 |-> FALSE, opt2 |-> FALSE,
     done |-> {}, incomplete |-> {}, invoked |-> <<>>, result |-> NoOutcome,
     escaped |-> "none"]

\* current_count before _update_question_answer_count has assigned it
NotRead == -1

\* Coordinator.__init__ (lines 126-130): no flow is running
InitCoordinator ==
    /\ flow = [f \in FlowIds |-> NoFlow]
    /\ coord_active = {}
    /\ coord_start = [f \in FlowIds |-> 0]
    /\ audit = <<>>
    /\ built = NoOutcome
    /\ respostas_count = 0
    /\ current_count = [f \in FlowIds |-> NotRead]
    /\ documents = <<>>
    /\ cancel_seen = <<>>

InitEngine(inputs) ==
    /\ \E inp \in inputs :
          /\ workflow_definitions = inp.wf
          /\ parallel_execution = inp.parallel
          /\ executions = inp.executions
    /\ step = [s \in StepNames |-> NewStep]
    /\ active_workflows = {}
    /\ wr = [r \in Runs |-> NoResult]
    /\ main = [r \in Runs |-> NoMain]
    /\ task = [r \in Runs |-> [s \in StepNames |-> NoTask]]
    /\ now = 1
    /\ calls = [r \in Runs |-> [s \in StepNames |-> 0]]
    /\ launched = [r \in Runs |-> <<>>]
    /\ condres = [r \in Runs |-> [s \in StepNames |-> "none"]]
    /\ waits = [r \in Runs |-> [s \in StepNames |-> <<>>]]
    /\ cancelled = [r \in Runs |-> FALSE]
    /\ cleanups = 0
    /\ cleanup_last = [max_age_hours |-> 0, returned |-> 0, terminal_before |-> {}]
    /\ outcomes = [r \in Runs |-> [s \in StepNames |-> <<>>]]
    /\ step0 = [r \in Runs |-> [s \in StepNames |-> NewStep]]
    /\ raised = <<>>
    /\ refused = <<>>
    /\ status_seen = <<>>

\* a value of the data that is logged: a string, a mapping (its items in
\* order, each a key and a value) or a list (its elements, keys unused)
Atom(a) == [kind |-> "atom", atom |-> a, items |-> <<>>]
Item(k, v) == [key |-> k, value |-> v]
Dict(items) == [kind |-> "dict", atom |-> "", items |-> items]
List(elems) == [kind |-> "list", atom |-> "",
                items |-> [i \in DOMAIN elems |-> Item(<<>>, elems[i])]]
\* no call was made yet
Nothing == [kind |-> "none", atom |-> "", items |-> <<>>]

InitSanitizer(inputs) ==
    /\ sanitize_in \in inputs
    /\ sanitize_out = Nothing

InitFrom(inputs) == InitEngine(inputs) /\ InitCoordinator /\ InitSanitizer({Nothing})

Init == InitFrom(Inputs)

\* the event loop is between callbacks: no coroutine is in the middle of a
\* stretch of code that runs without awaiting
\* lines 366-372 with an ordinary callable as step.function: the call has
\* returned a value and awaiting it (or handing it to asyncio.wait_for) is
\* about to raise TypeError, with no await in between
AwaitsNothing(r, s) == task[r][s].pc = "call" /\ workflow_definitions[s].sync

Quiet ==
    /\ \A r \in Runs : main[r].pc \notin {"loop", "final"}
    /\ \A r \in Runs, s \in StepNames : ~AwaitsNothing(r, s)

hist == <<calls, launched, condres, waits, cancelled, cleanups, cleanup_last, outcomes,
          step0>>
config == <<workflow_definitions, parallel_execution, executions>>
\* what the callers of the engine have observed
seen == <<raised, refused, status_seen>>
\* the state of the orchestrators (coordinator.py)
sanitizer == <<sanitize_in, sanitize_out>>
\* the persistence store and the callers of the orchestrators
outside == <<built, respostas_count, current_count, documents, cancel_seen>>
coordinator == <<flow, coord_active, coord_start, audit, sanitizer, outside>>

\* ------------------------------------------- execute_workflow, _execute_steps
\* execute_workflow + the head of _execute_steps (lines 122-181).  The steps
\* list is a copy of the defined list (list.copy()): a new list holding the
\* same WorkflowStep objects, so run r works on `step` itself.
ExecuteWorkflow(r) ==
    /\ main[r].pc = "idle"
    /\ Quiet
    /\ r <= executions
    /\ wr' = [wr EXCEPT ![r] = [NoResult EXCEPT !.state = "running",
                                                !.total_steps = Len(Order)]]
    /\ active_workflows' = active_workflows \cup {r}
    /\ main' = [main EXCEPT ![r] = [NoMain EXCEPT !.pc = "loop", !.pending = StepNames]]
    /\ step0' = [step0 EXCEPT ![r] = step]
    /\ UNCHANGED <<config, seen, coordinator, step, task, now, calls, launched, condres, waits, cancelled,
                   cleanups, cleanup_last, outcomes>>

\* the call is made when the earlier calls have returned
Execute(r) ==
    /\ \A q \in Runs : q < r => main[q].pc = "done"
    /\ ExecuteWorkflow(r)

\* the call is made while the call before it is still running
ExecuteWhileRunning(r) ==
    /\ r > 1
    /\ main[r - 1].pc \notin {"idle", "done"}
    /\ ExecuteWorkflow(r)

\* ----------------------------------------------------- _execute_single_step
\* faulty variant: the skipped step is recorded but not counted
SkipUncounted(r, s) ==
    /\ step' = [step EXCEPT ![s].state = "skipped"]
    /\ wr' = [wr EXCEPT ![r].steps_results =
                            DictPut(@, [name |-> s, outcome |-> "skipped",
                                        attempts |-> 0, error |-> "none"])]
    /\ task' = [task EXCEPT ![r][s].pc = "finished"]
    /\ UNCHANGED <<calls, waits>>

\* lines 352-355: the condition is not met
Skip(r, s) ==
    /\ step' = [step EXCEPT ![s].state = "skipped"]
    /\ wr' = [wr EXCEPT ![r].skipped_steps = @ + 1,
                        ![r].steps_results =
                            DictPut(@, [name |-> s, outcome |-> "skipped",
                                        attempts |-> 0, error |-> "none"])]
    /\ task' = [task EXCEPT ![r][s].pc = "finished"]
    /\ UNCHANGED <<calls, waits>>

\* lines 357-372: the step starts running and the action is invoked (attempt 0)
Invoke(r, s) ==
    /\ step' = [step EXCEPT ![s].state = "running"]
    /\ task' = [task EXCEPT ![r][s] = [pc |-> "call", attempt |-> 0]]
    /\ calls' = [calls EXCEPT ![r][s] = @ + 1]
    /\ UNCHANGED <<wr, waits>>

\* faulty variant: an exception of the predicate is not turned into False
ConditionMetUnlessFalse(c) == c # "false"

\* _evaluate_condition (lines 483-490): what the caller gets when the
\* predicate does c; an exception is logged and turned into False
ConditionMet(c) == c = "true"

\* line 351 with _evaluate_condition (471-490): an ordinary predicate is
\* evaluated at once (c is what it does), a coroutine function is awaited;
\* False and a raised exception both mean "not met"
EnterStep(r, s, c) ==
    LET cond == workflow_definitions[s].condition IN
    CASE cond = "none" ->
              /\ c = "true"
              /\ Invoke(r, s)
              /\ UNCHANGED condres
      [] cond = "sync" ->
              /\ condres' = [condres EXCEPT ![r][s] = c]
              /\ IF ConditionMet(c) THEN Invoke(r, s) ELSE Skip(r, s)
      [] cond = "async" ->
              /\ c = "true"
              /\ task' = [task EXCEPT ![r][s].pc = "cond"]
              /\ UNCHANGED <<step, wr, calls, waits, condres>>

\* what EnterStep(r, s, c) leaves the step in
EnterSkips(s, c) == workflow_definitions[s].condition = "sync" /\ ~ConditionMet(c)

\* faulty variant: a failed critical step does not stop the loop
SeqAfterNoFailFast(r, s, st) == [main EXCEPT ![r].pc = "loop", ![r].i = @ + 1]

\* _execute_sequential after _execute_single_step returned with the step in
\* state st (lines 259-261), back to the head of the for loop
SeqAfter(r, s, st) ==
    IF st = "failed" /\ ~workflow_definitions[s].can_fail
    THEN [main EXCEPT ![r].pc = "final"]
    ELSE [main EXCEPT ![r].pc = "loop", ![r].i = @ + 1]

\* what an action can do when it is invoked
ActionOutcomes == {"ok", "raise", "timeout", "not_awaitable"}

\* the outcomes of one attempt: asyncio.wait_for can time out only if
\* step.timeout is set (line 364); what an ordinary callable returns
\* cannot be awaited
AttemptOutcomes(s) ==
    IF workflow_definitions[s].sync THEN {"not_awaitable"}
    ELSE {"ok", "raise"} \cup (IF workflow_definitions[s].timeout THEN {"timeout"} ELSE {})

\* faulty variant: one attempt too many
CanRetryOnceMore(r, s) == task[r][s].attempt <= workflow_definitions[s].max_retries

\* lines 402 and 437: another attempt is allowed
CanRetry(r, s) == task[r][s].attempt < workflow_definitions[s].max_retries

\* lines 374-396: the attempt succeeded
StepCompleted(r, s) ==
    /\ step' = [step EXCEPT ![s].state = "completed", ![s].result = TRUE]
    /\ wr' = [wr EXCEPT ![r].completed_steps = @ + 1,
                        ![r].steps_results =
                            DictPut(@, [name |-> s, outcome |-> "success",
                                        attempts |-> task[r][s].attempt + 1,
                                        error |-> "none"])]
    /\ task' = [task EXCEPT ![r][s].pc = "finished"]
    /\ UNCHANGED waits

\* faulty variant: every failed attempt is counted as a failed step
StepRetryCounted(r, s, o) ==
    /\ step' = [step EXCEPT ![s].state = "retrying", ![s].error = o,
                            ![s].retry_count = @ + 1]
    /\ waits' = [waits EXCEPT ![r][s] = Append(@, Pow2(task[r][s].attempt))]
    /\ task' = [task EXCEPT ![r][s].pc = "sleep"]
    /\ wr' = [wr EXCEPT ![r].failed_steps = @ + 1]

\* faulty variant: the backoff is computed from the number of the next attempt
StepRetryLateBackoff(r, s, o) ==
    /\ step' = [step EXCEPT ![s].state = "retrying", ![s].error = o,
                            ![s].retry_count = @ + 1]
    /\ waits' = [waits EXCEPT ![r][s] = Append(@, Pow2(task[r][s].attempt + 1))]
    /\ task' = [task EXCEPT ![r][s].pc = "sleep"]
    /\ UNCHANGED wr

\* faulty variant: a retry after a timeout is not counted in retry_count
StepRetryTimeoutUncounted(r, s, o) ==
    /\ step' = [step EXCEPT ![s].state = "retrying", ![s].error = o,
                            ![s].retry_count = IF o = "timeout" THEN @ ELSE @ + 1]
    /\ waits' = [waits EXCEPT ![r][s] = Append(@, Pow2(task[r][s].attempt))]
    /\ task' = [task EXCEPT ![r][s].pc = "sleep"]
    /\ UNCHANGED wr

\* lines 402-416 and 437-451: another attempt follows after the backoff sleep
StepRetry(r, s, o) ==
    /\ step' = [step EXCEPT ![s].state = "retrying", ![s].error = o,
                            ![s].retry_count = @ + 1]
    /\ waits' = [waits EXCEPT ![r][s] = Append(@, Pow2(task[r][s].attempt))]
    /\ task' = [task EXCEPT ![r][s].pc = "sleep"]
    /\ UNCHANGED wr

\* lines 417-431 and 452-469: the attempts are used up
StepFailed(r, s, o) ==
    /\ step' = [step EXCEPT ![s].state = "failed", ![s].error = o]
    /\ wr' = [wr EXCEPT ![r].failed_steps = @ + 1,
                        ![r].errors = Append(@, <<s, o>>),
                        ![r].steps_results =
                            DictPut(@, [name |-> s, outcome |-> "failed",
                                        attempts |-> task[r][s].attempt + 1,
                                        error |-> o])]
    /\ task' = [task EXCEPT ![r][s].pc = "finished"]
    /\ UNCHANGED waits

\* the awaited condition coroutine returns c (lines 351-372)
CondReturn(r, s, c) ==
    /\ task[r][s].pc = "cond"
    /\ Quiet
    /\ condres' = [condres EXCEPT ![r][s] = c]
    /\ IF ConditionMet(c) THEN Invoke(r, s) ELSE Skip(r, s)
    /\ main' = IF ~parallel_execution /\ ~ConditionMet(c) THEN SeqAfter(r, s, "skipped")
               ELSE main
    /\ UNCHANGED <<config, seen, coordinator, active_workflows, now, launched, cancelled, cleanups, cleanup_last, outcomes, step0>>

\* the awaited action returns (o = "ok"), raises or times out (lines 362-469)
ActionReturn(r, s, o) ==
    /\ task[r][s].pc = "call"
    /\ Quiet \/ AwaitsNothing(r, s)
    /\ o \in AttemptOutcomes(s)
    /\ IF o = "ok"
       THEN /\ StepCompleted(r, s)
            /\ main' = IF parallel_execution THEN main ELSE SeqAfter(r, s, "completed")
       ELSE IF CanRetry(r, s)
       THEN /\ StepRetry(r, s, o)
            /\ main' = main
       ELSE /\ StepFailed(r, s, o)
            /\ main' = IF parallel_execution THEN main ELSE SeqAfter(r, s, "failed")
    /\ outcomes' = [outcomes EXCEPT ![r][s] = Append(@, o)]
    /\ UNCHANGED <<config, seen, coordinator, active_workflows, now, calls, launched, condres, cancelled,
                   cleanups, cleanup_last, step0>>

\* asyncio.sleep(2 ** attempt) is over: the next attempt invokes the action
SleepReturn(r, s) ==
    /\ task[r][s].pc = "sleep"
    /\ Quiet
    /\ task' = [task EXCEPT ![r][s] = [pc |-> "call", attempt |-> @.attempt + 1]]
    /\ calls' = [calls EXCEPT ![r][s] = @ + 1]
    /\ UNCHANGED <<config, seen, coordinator, step, active_workflows, wr, main, now, launched, condres,
                   waits, cancelled, cleanups, cleanup_last, outcomes, step0>>

\* faulty variant: the loop looks for the wrong state
IsCancelledWrongState(r) == wr[r].state = "failed"

\* faulty variant: a paused workflow starts no further step
IsCancelledOrPaused(r) == wr[r].state \in {"cancelled", "paused"}

\* lines 254 and 272: the cooperative cancellation check
IsCancelled(r) == wr[r].state = "cancelled"

\* -------------------------------------------------------- _execute_sequential
\* head of the for loop (lines 253-257): the next step is entered unless the
\* list is used up or the workflow was cancelled
SeqLoop(r, c) ==
    /\ main[r].pc = "loop"
    /\ ~parallel_execution
    /\ IF main[r].i > Len(Order) \/ IsCancelled(r)
       THEN /\ c = "true"
            /\ main' = [main EXCEPT ![r].pc = "final"]
            /\ UNCHANGED <<step, wr, task, calls, condres, waits, launched>>
       ELSE LET s == Order[main[r].i] IN
            /\ EnterStep(r, s, c)
            /\ launched' = [launched EXCEPT ![r] = Append(@, s)]
            /\ main' = IF EnterSkips(s, c) THEN SeqAfter(r, s, "skipped")
                       ELSE [main EXCEPT ![r].pc = "step"]
    /\ UNCHANGED <<config, seen, coordinator, active_workflows, now, cancelled, cleanups, cleanup_last, outcomes, step0>>

\* ---------------------------------------------------------- _execute_parallel
\* faulty variant: a dependency that is not a step of the workflow is ignored
GetReadyStepsKnownDeps(pending_steps, completed_steps) ==
    {s \in pending_steps : \A dep \in workflow_definitions[s].depends_on \cap StepNames :
                               dep \in completed_steps}

\* _get_ready_steps (lines 314-337)
GetReadySteps(pending_steps, completed_steps) ==
    {s \in pending_steps : \A dep \in workflow_definitions[s].depends_on :
                               dep \in completed_steps}

\* head of the while loop up to asyncio.wait (lines 271-295)
ParLoop(r) ==
    LET m == main[r]
        ready_steps == GetReadySteps(m.pending, m.completed)
        inflight == {s \in m.running : task[r][s].pc # "finished"}
    IN
    /\ m.pc = "loop"
    /\ parallel_execution
    /\ IF m.pending = {} /\ m.running = {}
       THEN /\ main' = [main EXCEPT ![r].pc = "final"]
            /\ UNCHANGED <<task, launched>>
       ELSE IF IsCancelled(r)
       THEN \* task.cancel() for every running task, break, gather (272-276, 311-312)
            /\ task' = [task EXCEPT ![r] = [s \in StepNames |->
                            IF s \in inflight THEN [@[s] EXCEPT !.pc = "cancelled"] ELSE @[s]]]
            /\ main' = [main EXCEPT ![r].pc = IF m.running = {} THEN "final" ELSE "gather"]
            /\ UNCHANGED launched
       ELSE /\ task' = [task EXCEPT ![r] = [s \in StepNames |->
                            IF s \in ready_steps THEN [pc |-> "created", attempt |-> 0]
                            ELSE @[s]]]
            /\ launched' = [launched EXCEPT ![r] = @ \o InOrder(ready_steps, 1)]
            /\ main' = [main EXCEPT
                          ![r].pending = @ \ ready_steps,
                          ![r].running = @ \cup ready_steps,
                          ![r].ready = ready_steps,
                          \* lines 291, 307: nothing to wait for and nothing ready
                          ![r].pc = IF m.running \cup ready_steps = {} THEN "final"
                                    ELSE "wait"]
    /\ UNCHANGED <<config, seen, coordinator, step, active_workflows, wr, now, calls, condres, waits,
                   cancelled, cleanups, cleanup_last, outcomes, step0>>

\* a created task gets to run: _execute_single_step up to its first await
TaskStart(r, s, c) ==
    /\ task[r][s].pc = "created"
    /\ Quiet
    /\ EnterStep(r, s, c)
    /\ UNCHANGED <<config, seen, coordinator, active_workflows, main, now, launched, cancelled, cleanups, cleanup_last, outcomes, step0>>

\* asyncio.wait returns with the tasks that are done (lines 292-308)
ParWake(r) ==
    LET m == main[r]
        done == {s \in m.running : task[r][s].pc = "finished"}
    IN
    /\ m.pc = "wait"
    /\ Quiet
    /\ done # {}
    /\ main' = [main EXCEPT
                  ![r].completed = @ \cup done,
                  ![r].running = @ \ done,
                  ![r].pc = IF m.ready = {} /\ m.running \ done = {} THEN "final"
                            ELSE "loop"]
    /\ UNCHANGED <<config, seen, coordinator, step, active_workflows, wr, task, now, hist>>

\* asyncio.gather over the cancelled tasks returns (lines 311-312)
GatherDone(r) ==
    /\ main[r].pc = "gather"
    /\ Quiet
    /\ main' = [main EXCEPT ![r].pc = "final"]
    /\ UNCHANGED <<config, seen, coordinator, step, active_workflows, wr, task, now, hist>>

\* ------------------------------------------------ _execute_steps, the end
\* lines 198-211: the final state
FinalState(r) ==
    IF wr[r].failed_steps > 0
    THEN IF \E s \in StepNames : step[s].state = "failed" /\ ~workflow_definitions[s].can_fail
         THEN "failed"
         ELSE "completed"
    ELSE "completed"

\* faulty variant: the entry stays in the registry
FinalizeKeepsEntry(r) ==
    /\ main[r].pc = "final"
    /\ wr' = [wr EXCEPT ![r].state = FinalState(r), ![r].end_time = now]
    /\ main' = [main EXCEPT ![r] = [NoMain EXCEPT !.pc = "done"]]
    /\ task' = [task EXCEPT ![r] = [s \in StepNames |-> NoTask]]
    /\ UNCHANGED <<config, seen, coordinator, step, active_workflows, now, hist>>

\* lines 198-247
Finalize(r) ==
    /\ main[r].pc = "final"
    /\ wr' = [wr EXCEPT ![r].state = FinalState(r), ![r].end_time = now]
    /\ active_workflows' = active_workflows \ {r}
    \* the coroutines of the run and their local variables are gone
    /\ main' = [main EXCEPT ![r] = [NoMain EXCEPT !.pc = "done"]]
    /\ task' = [task EXCEPT ![r] = [s \in StepNames |-> NoTask]]
    /\ UNCHANGED <<config, seen, coordinator, step, now, hist>>

\* --------------------------------------------------- calls from other tasks
\* cancel_workflow (lines 504-521), the call that returns True
CancelWorkflow(r) ==
    /\ Quiet
    /\ r \in active_workflows
    /\ wr' = [wr EXCEPT ![r].state = "cancelled"]
    /\ cancelled' = [cancelled EXCEPT ![r] = TRUE]
    /\ UNCHANGED <<config, seen, coordinator, step, active_workflows, main, task, now, calls, launched,
                   condres, waits, cleanups, cleanup_last, outcomes, step0>>

\* pause_workflow (lines 523-543), the call that returns True
PauseWorkflow(r) ==
    /\ Quiet
    /\ r \in active_workflows
    /\ wr[r].state = "running"
    /\ wr' = [wr EXCEPT ![r].state = "paused"]
    /\ UNCHANGED <<config, seen, coordinator, step, active_workflows, main, task, now, hist>>

\* resume_workflow (lines 545-565), the call that returns True
ResumeWorkflow(r) ==
    /\ Quiet
    /\ r \in active_workflows
    /\ wr[r].state = "paused"
    /\ wr' = [wr EXCEPT ![r].state = "running"]
    /\ UNCHANGED <<config, seen, coordinator, step, active_workflows, main, task, now, hist>>

\* pause_workflow (lines 523-543), the calls that return False: the id is not
\* registered (533-534) or the workflow is not RUNNING (543)
PauseRefused(r) ==
    /\ Quiet
    /\ Len(refused) < MaxRefusedCalls
    /\ ~(r \in active_workflows /\ wr[r].state = "running")
    /\ refused' = Append(refused, [call |-> "pause_workflow", workflow_id |-> r])
    /\ UNCHANGED <<config, raised, status_seen, coordinator, step, active_workflows, wr, main, task, now,
                   hist>>

\* resume_workflow (lines 545-565), the calls that return False
ResumeRefused(r) ==
    /\ Quiet
    /\ Len(refused) < MaxRefusedCalls
    /\ ~(r \in active_workflows /\ wr[r].state = "paused")
    /\ refused' = Append(refused, [call |-> "resume_workflow", workflow_id |-> r])
    /\ UNCHANGED <<config, raised, status_seen, coordinator, step, active_workflows, wr, main, task, now,
                   hist>>

\* time passes between two readings of time.time()
Tick ==
    /\ Quiet
    /\ now < MaxTime
    /\ now' = now + 1
    /\ UNCHANGED <<config, seen, coordinator, step, active_workflows, wr, main, task, hist>>

\* the values of max_age_hours: the claimed 0 and the default (line 585)
AgeChoices == {0, 24}

\* faulty variant: the state alone decides
ExpiredWhateverEndTime(r, cutoff_time) == wr[r].state \in TerminalStates

\* lines 601-602: the entry is terminal and ended before the cutoff
\* (end_time None, here 0, is false)
Expired(r, cutoff_time) ==
    /\ wr[r].state \in TerminalStates
    /\ wr[r].end_time # 0
    /\ wr[r].end_time < cutoff_time

\* cleanup_completed_workflows (lines 585-611)
Cleanup(max_age_hours) ==
    LET cutoff_time == now - max_age_hours * SecondsPerHour
        workflows_to_remove == {r \in active_workflows : Expired(r, cutoff_time)}
    IN
    /\ Quiet
    /\ cleanups < MaxCleanups
    /\ active_workflows' = active_workflows \ workflows_to_remove
    /\ cleanups' = cleanups + 1
    /\ cleanup_last' = [max_age_hours |-> max_age_hours,
                        returned |-> Cardinality(workflows_to_remove),
                        terminal_before |-> {r \in active_workflows :
                                               wr[r].state \in TerminalStates}]
    /\ UNCHANGED <<config, seen, coordinator, step, wr, main, task, now, calls, launched, condres, waits,
                   cancelled, outcomes, step0>>

Next ==
    \/ \E r \in Runs : Execute(r)
    \/ \E r \in Runs, c \in CondOutcomes : SeqLoop(r, c)
    \/ \E r \in Runs : ParLoop(r)
    \/ \E r \in Runs, s \in StepNames, c \in CondOutcomes : TaskStart(r, s, c)
    \/ \E r \in Runs, s \in StepNames, c \in CondOutcomes : CondReturn(r, s, c)
    \/ \E r \in Runs, s \in StepNames, o \in ActionOutcomes : ActionReturn(r, s, o)
    \/ \E r \in Runs, s \in StepNames : SleepReturn(r, s)
    \/ \E r \in Runs : ParWake(r)
    \/ \E r \in Runs : GatherDone(r)
    \/ \E r \in Runs : Finalize(r)
    \/ \E r \in Runs : CancelWorkflow(r)
    \/ \E r \in Runs : PauseWorkflow(r)
    \/ \E r \in Runs : ResumeWorkflow(r)

Spec == Init /\ [][Next]_vars

\* --------------------------------------------- the engine and its callers
\* names execute_workflow is called with that define_workflow never got
UndefinedNames == {"missing"}

\* faulty variant: the id is generated and registered before the lookup
ExecuteUndefinedRegistered(workflow_name) ==
    /\ Quiet
    /\ Len(raised) < MaxFailedCalls
    /\ \E r \in Runs :
          /\ main[r].pc = "idle"
          /\ active_workflows' = active_workflows \cup {r}
    /\ raised' = Append(raised, "ValueError")
    /\ UNCHANGED <<refused, status_seen>>
    /\ UNCHANGED <<config, coordinator, step, wr, main, task, now, hist>>

\* execute_workflow (lines 122-123): the name is not in _workflow_definitions
ExecuteUndefined(workflow_name) ==
    /\ Quiet
    /\ Len(raised) < MaxFailedCalls
    /\ raised' = Append(raised, "ValueError")
    /\ UNCHANGED <<refused, status_seen>>
    /\ UNCHANGED <<config, coordinator, step, active_workflows, wr, main, task, now, hist>>

\* workflows of critical steps without dependencies run once in either
\* mode, one step retrying or conditional
CallsInputs ==
    {inp \in Inputs :
        /\ inp.executions = 1
        /\ \A s \in StepNames : ~inp.wf[s].can_fail /\ inp.wf[s].depends_on = {}}

InitCalls == InitFrom(CallsInputs)

NextCalls ==
    \/ Next
    \/ \E n \in UndefinedNames : ExecuteUndefined(n)

SpecCalls == InitCalls /\ [][NextCalls]_vars

\* ------------------------------------------- the engine with aborted runs
\* get_workflow_status (lines 492-502): the entry or None, as a set of at
\* most one WorkflowResult
GetWorkflowStatus(r) == IF r \in active_workflows THEN {wr[r]} ELSE {}

\* list_active_workflows (lines 567-574)
ListActiveWorkflows == active_workflows

\* what can leave _execute_sequential or _execute_parallel while the run
\* awaits: an exception that `except Exception` catches (line 213), or the
\* CancelledError of the cancelled caller task, which it does not catch
AbortKinds == {"Exception", "CancelledError"}

\* lines 213-247 when e leaves the try block: the except clause for an
\* Exception, the finally clause in both cases; the result is returned after
\* an Exception, the CancelledError goes on to the caller.  The tasks that
\* _execute_parallel created are not cancelled and go on.
AbortRun(r, e) ==
    /\ main[r].pc \in {"step", "wait", "gather"}
    /\ Quiet
    /\ Len(raised) < MaxFailedCalls
    /\ wr' = IF e = "Exception"
             THEN [wr EXCEPT ![r].state = "failed",
                             ![r].errors = Append(@, <<"engine", e>>),
                             ![r].end_time = now]
             ELSE [wr EXCEPT ![r].end_time = now]
    /\ active_workflows' = active_workflows \ {r}
    /\ main' = [main EXCEPT ![r] = [NoMain EXCEPT !.pc = "done"]]
    /\ task' = IF parallel_execution THEN task
               ELSE [task EXCEPT ![r] = [s \in StepNames |-> NoTask]]
    /\ raised' = Append(raised, e)
    /\ UNCHANGED <<refused, status_seen>>
    /\ UNCHANGED <<config, coordinator, step, now, hist>>

\* workflows of critical steps without dependencies, run once in either mode
AbortInputs ==
    {inp \in Inputs :
        /\ inp.executions = 1
        /\ \A s \in StepNames : ~inp.wf[s].can_fail /\ inp.wf[s].depends_on = {}}

InitAbort == InitFrom(AbortInputs)

NextAbort ==
    \/ Next
    \/ \E r \in Runs, e \in AbortKinds : AbortRun(r, e)

SpecAbort == InitAbort /\ [][NextAbort]_vars

\* ------------------------------------------ the engine with longer retries
\* workflows without dependencies, run once in either mode; A (with a
\* timeout set) retries up to MaxBackoffRetries times, which includes the
\* default max_retries of WorkflowStep (line 50), B at most once, and C has
\* a condition
BackoffInputs ==
    {Input([s \in StepNames |->
               StepDef({}, cf, IF s = "A" THEN a ELSE IF s = "B" THEN b ELSE 0,
                       s = "A", IF s = "C" THEN "async" ELSE "none")], par, 1) :
        cf \in BOOLEAN, a \in 0..MaxBackoffRetries, b \in {0, 1},
        par \in BOOLEAN}

InitBackoff == InitFrom(BackoffInputs)

SpecBackoff == InitBackoff /\ [][Next]_vars

\* ------------------------------------- the same workflow run a second time
\* workflows without dependencies or conditions, executed twice in the same
\* mode; A has a timeout set and retries up to MaxTwinRetries times (once in
\* parallel mode), B may be allowed to fail in sequential mode
MaxTwinRetries == 2

TwinInputs ==
    {Input([s \in StepNames |->
               StepDef({}, s = "B" /\ cf, IF s = "A" THEN a ELSE 0, s = "A", "none")],
           FALSE, 2) :
        cf \in BOOLEAN, a \in 0..MaxTwinRetries} \cup
    {Input([s \in StepNames |-> StepDef({}, FALSE, IF s = "A" THEN 1 ELSE 0, s = "A", "none")],
           TRUE, 2)}

InitTwin == InitFrom(TwinInputs)

NextTwin ==
    \/ \E r \in Runs : Execute(r)
    \/ \E r \in Runs, c \in CondOutcomes : SeqLoop(r, c)
    \/ \E r \in Runs : ParLoop(r)
    \/ \E r \in Runs, s \in StepNames, c \in CondOutcomes : TaskStart(r, s, c)
    \/ \E r \in Runs, s \in StepNames, o \in ActionOutcomes : ActionReturn(r, s, o)
    \/ \E r \in Runs, s \in StepNames : SleepReturn(r, s)
    \/ \E r \in Runs : ParWake(r)
    \/ \E r \in Runs : Finalize(r)

SpecTwin == InitTwin /\ [][NextTwin]_vars

\* --------------------------------------------- overlapping execute_workflow
\* a workflow without retries or conditions, A allowed to fail, executed
\* sequentially by two calls, the second made while the first is running
OverlapInputs ==
    {Input([s \in StepNames |-> StepDef({}, s = "A" /\ cf, 0, FALSE, "none")], FALSE, 2) :
        cf \in BOOLEAN}

InitOverlap == InitFrom(OverlapInputs)

NextOverlap ==
    \/ Execute(1)
    \/ \E r \in Runs : ExecuteWhileRunning(r)
    \/ \E r \in Runs, c \in CondOutcomes : SeqLoop(r, c)
    \/ \E r \in Runs, s \in StepNames, o \in ActionOutcomes : ActionReturn(r, s, o)
    \/ \E r \in Runs : Finalize(r)

SpecOverlap == InitOverlap /\ [][NextOverlap]_vars

\* ------------------------------- the engine on unsatisfiable dependencies
\* workflows run once in parallel mode whose dependencies hold a cycle
\* (B and C wait for each other) or a name that is not a step (C waits for X)
BlockedInputs ==
    {inp \in Inputs :
        /\ inp.parallel
        /\ \/ inp.wf["B"].depends_on = {"C"}
           \/ "X" \in inp.wf["C"].depends_on}

InitBlocked == InitFrom(BlockedInputs)

\* the steps of the coroutines of _execute_steps in parallel mode: the event
\* loop runs every coroutine that can go on, and the awaited actions,
\* conditions and sleeps return
ParallelProgress ==
    \/ \E r \in Runs : Execute(r)
    \/ \E r \in Runs : ParLoop(r)
    \/ \E r \in Runs, s \in StepNames, c \in CondOutcomes : TaskStart(r, s, c)
    \/ \E r \in Runs, s \in StepNames, c \in CondOutcomes : CondReturn(r, s, c)
    \/ \E r \in Runs, s \in StepNames, o \in ActionOutcomes : ActionReturn(r, s, o)
    \/ \E r \in Runs, s \in StepNames : SleepReturn(r, s)
    \/ \E r \in Runs : ParWake(r)
    \/ \E r \in Runs : GatherDone(r)
    \/ \E r \in Runs : Finalize(r)

NextBlocked ==
    \/ ParallelProgress
    \/ \E r \in Runs : CancelWorkflow(r)
    \/ \E r \in Runs : PauseWorkflow(r)
    \/ \E r \in Runs : ResumeWorkflow(r)

SpecBlocked == InitBlocked /\ [][NextBlocked]_vars /\ WF_vars(ParallelProgress)

\* ------------------------------------- the engine with pause and resume
\* workflows of critical steps without dependencies, A retrying and B with a
\* condition, run once in either mode
PauseInputs ==
    {inp \in Inputs :
        /\ inp.executions = 1
        /\ \A s \in StepNames : ~inp.wf[s].can_fail /\ inp.wf[s].depends_on = {}
        /\ inp.wf["A"].max_retries > 0
        /\ inp.wf["B"].condition = "async" }

InitPause == InitFrom(PauseInputs)

\* the steps of the coroutines of a run, in either mode
EngineProgress ==
    \/ ParallelProgress
    \/ \E r \in Runs, c \in CondOutcomes : SeqLoop(r, c)

NextPause ==
    \/ Next
    \/ \E r \in Runs : PauseRefused(r)
    \/ \E r \in Runs : ResumeRefused(r)

\* the event loop runs every coroutine that can go on and the awaited
\* actions, conditions and sleeps return; nobody has to call cancel, pause
\* or resume
SpecPause == InitPause /\ [][NextPause]_vars /\ WF_vars(EngineProgress)

\* ------------------------------------- the engine with synchronous actions
\* workflows of critical steps without dependencies, run once in either
\* mode, in which the action of A is an ordinary callable that returns a
\* value; A may have a timeout and retries, B has a condition
SyncInputs ==
    {Input([s \in StepNames |->
               IF s = "A" THEN [StepDef({}, FALSE, mr, to, "none") EXCEPT !.sync = TRUE]
               ELSE StepDef({}, FALSE, 0, FALSE, IF s = "B" THEN "async" ELSE "none")],
           par, 1) :
        mr \in 0..MaxRetries, to \in BOOLEAN, par \in BOOLEAN}

InitSync == InitFrom(SyncInputs)

SpecSync == InitSync /\ [][Next]_vars

\* ----------------------------------------- the engine with registry cleanup
\* workflows of critical steps without dependencies, A retrying and B with a
\* condition, run once
CleanupInputs ==
    {inp \in Inputs :
        /\ inp.executions = 1
        /\ \A s \in StepNames : ~inp.wf[s].can_fail /\ inp.wf[s].depends_on = {}
        /\ inp.wf["A"].max_retries > 0
        /\ inp.wf["B"].condition = "async" }

InitCleanup == InitFrom(CleanupInputs)

NextCleanup ==
    \/ Next
    \/ Tick
    \/ \E h \in AgeChoices : Cleanup(h)

SpecCleanup == InitCleanup /\ [][NextCleanup]_vars

\* ------------------------------------------------------ the domain flows
\* UserOrchestrator and EducationalOrchestrator: each flow is a fixed list of
\* _execute_step calls.  A call is fatal when the OrchestrationError it
\* raises reaches the flow's outer handler, best effort when the flow
\* catches it around the call; option: the argument of the flow that asks for
\* the step; needs: steps that must have succeeded before; raw: the step
\* returns the data of the gateway response as it came; reads: raw steps of
\* whose data the flow reads a field when it prepares this call.
FlowTypes ==
    {"register_user", "authenticate_user", "create_question", "create_answer",
     "create_evaluation"}

FlowStep(name, fatal, option) ==
    [step |-> name, fatal |-> fatal, option |-> option, needs |-> {}, raw |-> FALSE,
     reads |-> {}]

Fatal(name) == FlowStep(name, TRUE, "always")
BestEffort(name, option) == FlowStep(name, FALSE, option)

\* register_user_flow (user_orchestrator.py 54-191); opt1 = send_verification,
\* opt2 = send_welcome
RegisterUserSteps ==
    << Fatal("validate_user_data"),
       Fatal("check_email_exists"),
       Fatal("hash_password"),
       Fatal("create_user"),
       BestEffort("create_initial_settings", "always"),
       BestEffort("send_email_verification", "opt1"),
       BestEffort("send_welcome_message", "opt2") >>

\* faulty variant: the tokens are generated before the account status is checked
AuthenticateUserStepsTokensFirst ==
    << Fatal("validate_email_format"),
       [Fatal("find_user_by_email") EXCEPT !.raw = TRUE],
       [Fatal("verify_password") EXCEPT !.reads = {"find_user_by_email"}],
       Fatal("generate_auth_tokens"),
       Fatal("check_account_status"),
       BestEffort("create_user_session", "always"),
       BestEffort("update_last_login", "always") >>

\* authenticate_user_flow (user_orchestrator.py 193-323); opt1 = remember_me.
\* Lines 236-244 read "_id" and "senha" of the user record the gateway returned.
AuthenticateUserSteps ==
    << Fatal("validate_email_format"),
       [Fatal("find_user_by_email") EXCEPT !.raw = TRUE],
       [Fatal("verify_password") EXCEPT !.reads = {"find_user_by_email"}],
       Fatal("check_account_status"),
       Fatal("generate_auth_tokens"),
       BestEffort("create_user_session", "always"),
       BestEffort("update_last_login", "always") >>

\* faulty variant: find-similar is asked for whatever became of the embedding
CreateQuestionStepsUngated ==
    << Fatal("validate_question_data"),
       Fatal("create_question"),
       BestEffort("create_embedding", "always"),
       BestEffort("find_similar_questions", "opt1"),
       BestEffort("generate_recommendations", "opt2") >>

\* create_question_flow (educational_orchestrator.py 63-181); opt1 =
\* find_similar, opt2 = generate_recommendations
CreateQuestionSteps ==
    << Fatal("validate_question_data"),
       Fatal("create_question"),
       BestEffort("create_embedding", "always"),
       [BestEffort("find_similar_questions", "opt1") EXCEPT !.needs = {"create_embedding"}],
       BestEffort("generate_recommendations", "opt2") >>

\* create_answer_flow (educational_orchestrator.py 183-303); opt1 =
\* calculate_quality.  Line 267 reads "conteudo" of the question document the
\* gateway returned.
CreateAnswerSteps ==
    << Fatal("validate_answer_data"),
       [Fatal("verify_question_exists") EXCEPT !.raw = TRUE],
       Fatal("create_answer"),
       BestEffort("create_answer_embedding", "always"),
       BestEffort("update_question_counter", "always"),
       [BestEffort("calculate_answer_quality", "opt1")
           EXCEPT !.reads = {"verify_question_exists"}] >>

\* create_evaluation_flow (educational_orchestrator.py 305-378); opt1 =
\* update_user_stats, opt2 = generate_feedback
CreateEvaluationSteps ==
    << Fatal("validate_evaluation_data"),
       Fatal("create_evaluation") >>

FlowSteps(type) ==
    CASE type = "register_user" -> RegisterUserSteps
      [] type = "authenticate_user" -> AuthenticateUserSteps
      [] type = "create_question" -> CreateQuestionSteps
      [] type = "create_answer" -> CreateAnswerSteps
      [] type = "create_evaluation" -> CreateEvaluationSteps

\* the optional arguments a flow takes (authenticate_user_flow has one)
FlowOptions(type) ==
    IF type \in {"authenticate_user", "create_answer"}
    THEN {<<o1, FALSE>> : o1 \in BOOLEAN}
    ELSE BOOLEAN \X BOOLEAN

\* _send_email_verification and _send_welcome_message (user_orchestrator.py
\* 418-451) do not look at the gateway's response and have nothing to raise
NeverFails == {"send_email_verification", "send_welcome_message"}

\* how a step function can end: it returns, it raises, or (a raw step) it
\* returns gateway data without the fields the flow reads later
StepOutcomes(st) ==
    {"ok"} \cup (IF st.step \in NeverFails THEN {} ELSE {"fail"})
           \cup (IF st.raw THEN {"incomplete"} ELSE {})

\* faulty variant: the optional calls are made whether asked for or not
StepWantedUnasked(fl, st, done) ==
    st.needs \subseteq done

\* the flow makes this call: its option was asked for and the steps it
\* needs have succeeded
StepWanted(fl, st, done) ==
    /\ \/ st.option = "always"
       \/ st.option = "opt1" /\ fl.opt1
       \/ st.option = "opt2" /\ fl.opt2
    /\ st.needs \subseteq done

\* the index of the next call after the i-th, 0 if there is none
NextStepFrom(fl, i, done) ==
    LET steps == FlowSteps(fl.type)
        later == {j \in DOMAIN steps : j > i /\ StepWanted(fl, steps[j], done)}
    IN IF later = {} THEN 0 ELSE CHOOSE j \in later : \A k \in later : j <= k

\* the fields of the flow's result dataclass that are set (true, or not None)
FlowData(fl, done) ==
    CASE fl.type = "register_user" ->
              {x \in {"initial_settings_created", "email_verification_sent",
                      "welcome_message_sent"} :
                  \/ x = "initial_settings_created" /\ "create_initial_settings" \in done
                  \/ x = "email_verification_sent" /\ "send_email_verification" \in done
                  \/ x = "welcome_message_sent" /\ "send_welcome_message" \in done}
      [] fl.type = "authenticate_user" ->
              {"access_token"} \cup
              {x \in {"refresh_token", "session_created", "last_login_updated"} :
                  \/ x = "refresh_token" /\ fl.opt1
                  \/ x = "session_created" /\ "create_user_session" \in done
                  \/ x = "last_login_updated" /\ "update_last_login" \in done}
      [] fl.type = "create_question" ->
              {x \in {"embedding_created", "similar_questions", "recommendations"} :
                  \/ x = "embedding_created" /\ "create_embedding" \in done
                  \/ x = "similar_questions" /\ "find_similar_questions" \in done
                  \/ x = "recommendations" /\ "generate_recommendations" \in done}
      [] fl.type = "create_answer" ->
              {x \in {"embedding_created", "question_updated", "quality_score"} :
                  \/ x = "embedding_created" /\ "create_answer_embedding" \in done
                  \/ x = "question_updated" /\ "update_question_counter" \in done
                  \/ x = "quality_score" /\ "calculate_answer_quality" \in done}
      [] fl.type = "create_evaluation" ->
              {"answer_updated"} \cup
              {x \in {"user_stats_updated", "feedback_generated"} :
                  \/ x = "user_stats_updated" /\ fl.opt1
                  \/ x = "feedback_generated" /\ fl.opt2}

\* OrchestrationStatus (coordinator.py 19-26)
OrchestrationStatus ==
    {"pending", "running", "success", "failed", "cancelled", "partial_success"}

\* the errors argument of a constructor: None, one message, or a list
ErrNone == [kind |-> "none", list |-> <<>>]
ErrStr(msg) == [kind |-> "str", list |-> <<msg>>]
ErrList(msgs) == [kind |-> "list", list |-> msgs]

\* OrchestrationResult.success_result (coordinator.py 44-58): it has no
\* errors parameter, the field keeps its default, the empty list
success_result(data, steps_completed, total_steps) ==
    [success |-> TRUE, status |-> "success", errors |-> <<>>,
     steps_completed |-> steps_completed, total_steps |-> total_steps, data |-> data]

\* OrchestrationResult.error_result (coordinator.py 60-81): one message is
\* wrapped in a list, the status is the caller's (FAILED by default)
error_result(errors, status, data, steps_completed, total_steps) ==
    [success |-> FALSE, status |-> status, errors |-> errors.list,
     steps_completed |-> steps_completed, total_steps |-> total_steps, data |-> data]

\* faulty variant: a result with errors that calls itself a plain success
partial_result_as_success(data, errors, steps_completed, total_steps) ==
    [success |-> TRUE, status |-> "success", errors |-> errors.list,
     steps_completed |-> steps_completed, total_steps |-> total_steps, data |-> data]

\* OrchestrationResult.partial_result (coordinator.py 83-103): errors or []
partial_result(data, errors, steps_completed, total_steps) ==
    [success |-> TRUE, status |-> "partial_success",
     errors |-> IF errors.kind = "none" THEN <<>> ELSE errors.list,
     steps_completed |-> steps_completed, total_steps |-> total_steps, data |-> data]

\* OrchestrationResult.success_result as the flows call it
SuccessResult(fl, done) ==
    success_result(FlowData(fl, done),
        CASE fl.type = "create_question" ->
                  (IF "create_embedding" \in done THEN 4 ELSE 2)
          [] fl.type = "create_answer" -> 6
          [] fl.type = "create_evaluation" -> 3
          [] OTHER -> 7,
        CASE fl.type = "create_question" -> 5
          [] fl.type \in {"create_answer", "create_evaluation"} -> 6
          [] OTHER -> 7)

\* OrchestrationResult.error_result as the flows call it: the message of the
\* OrchestrationError of the failed step, the default status
ErrorResult(fl, failed_step) ==
    error_result(ErrList(<<failed_step>>), "failed", {}, 0,
                 IF fl.type = "create_question" THEN 5 ELSE 0)

\* _log_workflow_start (coordinator.py 227-251)
LogWorkflowStart(f, type) ==
    /\ audit' = Append(audit, [workflow_id |-> f, workflow_type |-> type,
                               status |-> "started"])
    /\ coord_active' = coord_active \cup {f}
    /\ coord_start' = [coord_start EXCEPT ![f] = now]

\* faulty variant: the end is logged and the entry stays
LogWorkflowEndKeepsEntry(f, result) ==
    /\ audit' = Append(audit, [workflow_id |-> f,
                               workflow_type |-> IF f \in coord_active THEN flow[f].type
                                                 ELSE "unknown",
                               status |-> result.status])
    /\ UNCHANGED <<coord_active, coord_start>>

\* _log_workflow_end (coordinator.py 253-283)
LogWorkflowEnd(f, result) ==
    /\ audit' = Append(audit, [workflow_id |-> f,
                               workflow_type |-> IF f \in coord_active THEN flow[f].type
                                                 ELSE "unknown",
                               status |-> result.status])
    /\ coord_active' = coord_active \ {f}
    /\ coord_start' = [coord_start EXCEPT ![f] = 0]

\* the engine's variables
engine == <<config, seen, step, active_workflows, wr, main, task, now, hist>>

\* the head of a flow: the start is logged and the first step is invoked
FlowCall(f, type, o1, o2) ==
    /\ flow[f].pc = "idle"
    /\ <<o1, o2>> \in FlowOptions(type)
    /\ LogWorkflowStart(f, type)
    /\ flow' = [flow EXCEPT ![f] =
                   [NoFlow EXCEPT !.type = type, !.pc = "step", !.at = 1,
                                  !.opt1 = o1, !.opt2 = o2,
                                  !.invoked = <<FlowSteps(type)[1].step>>]]

\* a flow is called when the flows before it have ended
FlowStart(f, type, o1, o2) ==
    /\ f <= MaxFlows
    /\ \A q \in FlowIds : q < f => flow[q].pc \in {"done", "raised"}
    /\ FlowCall(f, type, o1, o2)
    /\ UNCHANGED <<engine, sanitizer, outside>>

\* the step function awaited in _execute_step (coordinator.py 142-200) ends
\* with outcome o and the flow goes on to its next await or to its end
FlowStepEnds(f, o) ==
    LET fl == flow[f]
        steps == FlowSteps(fl.type)
        cur == steps[fl.at]
        done == IF o = "fail" THEN fl.done ELSE fl.done \cup {cur.step}
        incomplete == IF o = "incomplete" THEN fl.incomplete \cup {cur.step}
                      ELSE fl.incomplete
        j == NextStepFrom(fl, fl.at, done)
        seen_so_far == [fl EXCEPT !.done = done, !.incomplete = incomplete]
    IN
    /\ fl.pc = "step"
    /\ o \in StepOutcomes(cur)
    /\ IF o = "fail" /\ cur.fatal
       THEN \* the outer handler: except OrchestrationError
            /\ flow' = [flow EXCEPT ![f] =
                           [seen_so_far EXCEPT !.pc = "done", !.at = 0,
                                               !.result = ErrorResult(fl, cur.step)]]
            /\ LogWorkflowEnd(f, ErrorResult(fl, cur.step))
       ELSE IF j = 0
       THEN /\ flow' = [flow EXCEPT ![f] =
                           [seen_so_far EXCEPT !.pc = "done", !.at = 0,
                                               !.result = SuccessResult(fl, done)]]
            /\ LogWorkflowEnd(f, SuccessResult(fl, done))
       ELSE IF steps[j].reads \cap incomplete # {}
       THEN \* a KeyError raised in the flow's own code: no handler catches it
            /\ flow' = [flow EXCEPT ![f] =
                           [seen_so_far EXCEPT !.pc = "raised", !.at = 0,
                                               !.escaped = "KeyError"]]
            /\ UNCHANGED <<coord_active, coord_start, audit>>
       ELSE /\ flow' = [flow EXCEPT ![f] =
                           [seen_so_far EXCEPT !.at = j,
                                               !.invoked = Append(@, steps[j].step)]]
            /\ UNCHANGED <<coord_active, coord_start, audit>>

\* the same, with what the step function did to the store left aside
FlowStepReturn(f, o) ==
    /\ FlowStepEnds(f, o)
    /\ UNCHANGED <<engine, sanitizer, outside>>

\* the engine idle, with a workflow of plain steps defined
IdleEngineInputs ==
    {Input([s \in StepNames |-> StepDef({}, FALSE, 0, FALSE, "none")], FALSE, 1)}

InitFlows == InitFrom(IdleEngineInputs)

NextFlows ==
    \/ \E f \in FlowIds, type \in FlowTypes, o1 \in BOOLEAN, o2 \in BOOLEAN :
          FlowStart(f, type, o1, o2)
    \/ \E f \in FlowIds, o \in {"ok", "fail", "incomplete"} : FlowStepReturn(f, o)

SpecFlows == InitFlows /\ [][NextFlows]_vars

\* ------------------------------------------- the OrchestrationResult constructors
\* the arguments the callers pass: error lists up to MaxErrors messages
MaxErrors == 2

ErrorMessages == {"e1", "e2"}

ErrorArgs ==
    {ErrNone} \cup {ErrStr(e) : e \in ErrorMessages}
              \cup {ErrList(l) : l \in UNION {[1..n -> ErrorMessages] : n \in 0..MaxErrors}}

DataArgs == {{}, {"answer_id"}}

\* a caller builds a result with one of the three constructors; error_result
\* takes a message or a list, partial_result a list or None
BuildSuccess(data) ==
    /\ built' = success_result(data, 0, 0)
    /\ UNCHANGED <<engine, flow, coord_active, coord_start, audit, sanitizer,
                   respostas_count, current_count, documents, cancel_seen>>

BuildError(errors, status) ==
    /\ errors.kind # "none"
    /\ built' = error_result(errors, status, {}, 0, 0)
    /\ UNCHANGED <<engine, flow, coord_active, coord_start, audit, sanitizer,
                   respostas_count, current_count, documents, cancel_seen>>

BuildPartial(data, errors) ==
    /\ errors.kind # "str"
    /\ built' = partial_result(data, errors, 0, 0)
    /\ UNCHANGED <<engine, flow, coord_active, coord_start, audit, sanitizer,
                   respostas_count, current_count, documents, cancel_seen>>

InitResults == InitFrom(IdleEngineInputs)

NextResults ==
    \/ NextFlows
    \/ \E data \in DataArgs : BuildSuccess(data)
    \/ \E errors \in ErrorArgs, status \in OrchestrationStatus : BuildError(errors, status)
    \/ \E data \in DataArgs, errors \in ErrorArgs : BuildPartial(data, errors)

SpecResults == InitResults /\ [][NextResults]_vars

\* ------------------------------------------- overlapping create_answer_flow
\* the step flow f is waiting for, "none" when it awaits no step
CurrentStep(f) ==
    IF flow[f].pc = "step" THEN FlowSteps(flow[f].type)[flow[f].at].step ELSE "none"

\* create_answer_flow is called, also while another run is under way
AnswerFlowStart(f, calculate_quality) ==
    /\ FlowCall(f, "create_answer", calculate_quality, FALSE)
    /\ UNCHANGED <<engine, sanitizer, outside>>

\* a step other than the counter update ends
AnswerStepReturn(f, o) ==
    /\ CurrentStep(f) # "update_question_counter"
    /\ FlowStepReturn(f, o)

\* _update_question_answer_count (educational_orchestrator.py 522-548), its
\* first await: get_question returns the document, or fails and the step
\* raises
GetQuestionReturn(f, success) ==
    /\ CurrentStep(f) = "update_question_counter"
    /\ current_count[f] = NotRead
    /\ IF success
       THEN /\ current_count' = [current_count EXCEPT ![f] = respostas_count]
            /\ UNCHANGED <<flow, coord_active, coord_start, audit>>
       ELSE /\ FlowStepEnds(f, "fail")
            /\ UNCHANGED current_count
    /\ UNCHANGED <<engine, sanitizer, built, respostas_count, documents, cancel_seen>>

\* its second await: update_document has written current_count + 1 and
\* returns, or fails and the step raises
UpdateDocumentReturn(f, success) ==
    /\ CurrentStep(f) = "update_question_counter"
    /\ current_count[f] # NotRead
    /\ FlowStepEnds(f, IF success THEN "ok" ELSE "fail")
    /\ respostas_count' = IF success THEN current_count[f] + 1 ELSE respostas_count
    /\ current_count' = [current_count EXCEPT ![f] = NotRead]
    /\ UNCHANGED <<engine, sanitizer, built, documents, cancel_seen>>

InitAnswers == InitFrom(IdleEngineInputs)

NextAnswers ==
    \/ \E f \in FlowIds, calculate_quality \in BOOLEAN : AnswerFlowStart(f, calculate_quality)
    \/ \E f \in FlowIds, o \in {"ok", "fail", "incomplete"} : AnswerStepReturn(f, o)
    \/ \E f \in FlowIds, success \in BOOLEAN : GetQuestionReturn(f, success)
    \/ \E f \in FlowIds, success \in BOOLEAN : UpdateDocumentReturn(f, success)

SpecAnswers == InitAnswers /\ [][NextAnswers]_vars

\* ------------------------------------------- authenticate_user_flow's writes
\* the collection a step of authenticate_user_flow writes to when it
\* succeeds: _generate_auth_tokens stores a token record (user_orchestrator.py
\* 487-490), _create_user_session a session (523-525), _update_user_last_login
\* updates the user (547)
Collection(name) ==
    CASE name = "generate_auth_tokens" -> "auth_tokens"
      [] name = "create_user_session" -> "user_sessions"
      [] name = "update_last_login" -> "usuarios"
      [] OTHER -> "none"

\* authenticate_user_flow is called, a second time when the first login has
\* ended
AuthFlowStart(f, remember_me) ==
    /\ \A q \in FlowIds : q < f => flow[q].pc \in {"done", "raised"}
    /\ FlowCall(f, "authenticate_user", remember_me, FALSE)
    /\ UNCHANGED <<engine, sanitizer, outside>>

\* a step of the flow ends with outcome o; stored: the store took the token
\* record (a failure to store it is only logged, lines 487-490)
AuthStepReturn(f, o, stored) ==
    LET name == CurrentStep(f) IN
    /\ flow[f].type = "authenticate_user"
    /\ name # "generate_auth_tokens" => stored
    /\ FlowStepEnds(f, o)
    /\ documents' = IF o # "fail" /\ stored /\ Collection(name) # "none"
                     THEN Append(documents, [workflow_id |-> f,
                                             collection |-> Collection(name)])
                     ELSE documents
    /\ UNCHANGED <<engine, sanitizer, built, respostas_count, current_count, cancel_seen>>

InitAuth == InitFrom(IdleEngineInputs)

NextAuth ==
    \/ \E f \in FlowIds, remember_me \in BOOLEAN : AuthFlowStart(f, remember_me)
    \/ \E f \in FlowIds, o \in {"ok", "fail", "incomplete"}, stored \in BOOLEAN :
          AuthStepReturn(f, o, stored)

SpecAuth == InitAuth /\ [][NextAuth]_vars

\* ------------------------------------------- the get_workflow_status calls
\* the fields of a WorkflowResult (workflow_engine.py 64-80) and the keys of
\* the dict Coordinator.get_workflow_status returns (coordinator.py 247-251,
\* 389-397)
WorkflowResultFields ==
    {"workflow_id", "state", "steps_results", "total_steps", "completed_steps",
     "failed_steps", "skipped_steps", "start_time", "end_time", "duration_ms", "errors",
     "metadata"}
WorkflowInfoKeys == {"type", "start_time", "status", "current_duration_ms"}

\* how far run r and flow f have got: the action invocations and recorded
\* steps of the run, the steps the flow has invoked
RunWork(r) ==
    calls[r]["A"] + calls[r]["B"] + calls[r]["C"] + Len(wr[r].steps_results)
FlowWork(f) == Len(flow[f].invoked) + Cardinality(flow[f].done)

\* what a get_workflow_status call returned: None (found is false) or a
\* value with these fields; a field the value does not have reads 0
StatusSeen(who, id, found, fields, completed_steps, current_duration_ms, work) ==
    [who |-> who, workflow_id |-> id, found |-> found, fields |-> fields,
     completed_steps |-> completed_steps, current_duration_ms |-> current_duration_ms,
     work |-> work]

\* WorkflowEngine.get_workflow_status (workflow_engine.py 492-502) is called
EngineStatusCall(r) ==
    /\ Quiet
    /\ Len(status_seen) < MaxStatusCalls
    /\ status_seen' = Append(status_seen,
          IF GetWorkflowStatus(r) = {}
          THEN StatusSeen("engine", r, FALSE, {}, 0, 0, RunWork(r))
          ELSE StatusSeen("engine", r, TRUE, WorkflowResultFields,
                          wr[r].completed_steps, 0, RunWork(r)))
    /\ UNCHANGED <<config, raised, refused, coordinator, step, active_workflows, wr, main,
                   task, now, hist>>

\* faulty variant: the call stamps the entry it reads with the time of the call
CoordinatorStatusCallRestamps(f) ==
    /\ Quiet
    /\ Len(status_seen) < MaxStatusCalls
    /\ status_seen' = Append(status_seen,
          IF f \notin coord_active
          THEN StatusSeen("coordinator", f, FALSE, {}, 0, 0, FlowWork(f))
          ELSE StatusSeen("coordinator", f, TRUE, WorkflowInfoKeys, 0,
                          (now - coord_start[f]) * 1000, FlowWork(f)))
    /\ coord_start' = [coord_start EXCEPT ![f] = IF f \in coord_active THEN now ELSE @]
    /\ UNCHANGED <<config, raised, refused, flow, coord_active, audit, sanitizer, outside,
                   step, active_workflows, wr, main, task, now, hist>>

\* Coordinator.get_workflow_status (coordinator.py 376-397) is called: a copy
\* of the entry with the time since start_time, in milliseconds
CoordinatorStatusCall(f) ==
    /\ Quiet
    /\ Len(status_seen) < MaxStatusCalls
    /\ status_seen' = Append(status_seen,
          IF f \notin coord_active
          THEN StatusSeen("coordinator", f, FALSE, {}, 0, 0, FlowWork(f))
          ELSE StatusSeen("coordinator", f, TRUE, WorkflowInfoKeys, 0,
                          (now - coord_start[f]) * 1000, FlowWork(f)))
    /\ UNCHANGED <<config, raised, refused, coordinator, step, active_workflows, wr, main,
                   task, now, hist>>

\* a workflow of plain steps that do not retry, run once and sequentially
StatusInputs ==
    {Input([s \in StepNames |-> StepDef({}, FALSE, 0, FALSE, "none")], FALSE, 1)}

InitStatus == InitFrom(StatusInputs)

\* the engine runs the workflow and an orchestrator runs
\* create_evaluation_flow while time passes and both are asked for the status
NextStatus ==
    \/ \E r \in Runs : Execute(r)
    \/ \E r \in Runs, c \in CondOutcomes : SeqLoop(r, c)
    \/ \E r \in Runs, s \in StepNames, o \in ActionOutcomes : ActionReturn(r, s, o)
    \/ \E r \in Runs : Finalize(r)
    \/ Tick
    \/ \E r \in Runs : EngineStatusCall(r)
    \/ \E f \in FlowIds, o1 \in BOOLEAN, o2 \in BOOLEAN :
          FlowStart(f, "create_evaluation", o1, o2)
    \/ \E f \in FlowIds, o \in {"ok", "fail", "incomplete"} : FlowStepReturn(f, o)
    \/ \E f \in FlowIds : CoordinatorStatusCall(f)

SpecStatus == InitStatus /\ [][NextStatus]_vars

\* ------------------------------------------- Coordinator.cancel_workflow
\* what a cancel_workflow call returned, and how far the flow had got
CancelSeen(id, returned) ==
    [workflow_id |-> id, returned |-> returned, work |-> FlowWork(id)]

\* Coordinator.cancel_workflow (coordinator.py 399-434) is called.  Without
\* an entry it returns False; with one it marks the entry CANCELLED, logs the
\* end itself with a cancelled error result, which removes the entry, and
\* returns True.  The flow is not told: it goes on with its steps.
CoordinatorCancel(f) ==
    /\ Len(cancel_seen) < MaxCancelCalls
    /\ IF f \notin coord_active
       THEN /\ cancel_seen' = Append(cancel_seen, CancelSeen(f, FALSE))
            /\ UNCHANGED <<coord_active, coord_start, audit>>
       ELSE /\ LogWorkflowEnd(f, error_result(ErrStr("Workflow cancelled by user"),
                                              "cancelled", {}, 0, 0))
            /\ cancel_seen' = Append(cancel_seen, CancelSeen(f, TRUE))
    /\ UNCHANGED <<engine, flow, sanitizer, built, respostas_count, current_count,
                   documents>>

InitAudit == InitFrom(IdleEngineInputs)

NextAudit ==
    \/ NextFlows
    \/ \E f \in FlowIds : CoordinatorCancel(f)
    \/ \E f \in FlowIds : CoordinatorStatusCall(f)

SpecAudit == InitAudit /\ [][NextAudit]_vars

\* ------------------------------------------------------ _sanitize_log_data
\* keys are strings, kept as the sequence of their characters
Chars(w) ==
    CASE w = "senha" -> <<"s", "e", "n", "h", "a">>
      [] w = "password" -> <<"p", "a", "s", "s", "w", "o", "r", "d">>
      [] w = "token" -> <<"t", "o", "k", "e", "n">>
      [] w = "secret" -> <<"s", "e", "c", "r", "e", "t">>
      [] w = "key" -> <<"k", "e", "y">>
      [] w = "auth" -> <<"a", "u", "t", "h">>
      [] w = "authorization" ->
             <<"a", "u", "t", "h", "o", "r", "i", "z", "a", "t", "i", "o", "n">>
      [] w = "credential" -> <<"c", "r", "e", "d", "e", "n", "t", "i", "a", "l">>
      [] w = "API_KEY" -> <<"A", "P", "I", "_", "K", "E", "Y">>
      [] w = "Senha" -> <<"S", "e", "n", "h", "a">>
      [] w = "user_token" -> <<"u", "s", "e", "r", "_", "t", "o", "k", "e", "n">>
      [] w = "nome" -> <<"n", "o", "m", "e">>
      [] w = "dados" -> <<"d", "a", "d", "o", "s">>

\* lines 295-298
sensitive_fields ==
    {"senha", "password", "token", "secret", "key", "auth", "authorization", "credential"}

\* str.lower() on the characters the keys use
LowerChar(c) ==
    CASE c = "A" -> "a" [] c = "P" -> "p" [] c = "I" -> "i" [] c = "K" -> "k"
      [] c = "E" -> "e" [] c = "Y" -> "y" [] c = "S" -> "s" [] OTHER -> c

Lower(key) == [i \in DOMAIN key |-> LowerChar(key[i])]

\* Python's `sub in text` on strings
Contains(text, sub) ==
    \E i \in 1..(Len(text) - Len(sub) + 1) : SubSeq(text, i, i + Len(sub) - 1) = sub

\* faulty variant: the key is compared as written, not lowercased
SensitiveAsWritten(key) ==
    \E sensitive \in sensitive_fields : Contains(key, Chars(sensitive))

\* line 305
Sensitive(key) ==
    \E sensitive \in sensitive_fields : Contains(Lower(key), Chars(sensitive))

Redacted == Atom("[REDACTED]")

\* f"[{len(value)} items]" (line 314)
ItemsSummary(n) ==
    Atom(<<"[1 items]", "[2 items]", "[3 items]", "[4 items]">>[n])

\* _sanitize_log_data (lines 285-318) on a mapping
RECURSIVE Sanitize(_)
Sanitize(data) ==
    Dict([i \in DOMAIN data.items |->
            LET key == data.items[i].key
                value == data.items[i].value
            IN Item(key,
                    IF Sensitive(key) THEN Redacted
                    ELSE IF value.kind = "dict" THEN Sanitize(value)
                    ELSE IF value.kind = "list" /\ Len(value.items) > 0
                    THEN (IF value.items[1].value.kind = "dict"
                          THEN List(<<Sanitize(value.items[1].value), Atom("...")>>)
                          ELSE ItemsSummary(Len(value.items)))
                    ELSE value)])

\* the data the call is made with.  Strings stored under a sensitive key
\* are secrets, other strings are public.
Secrets == {Atom("s3cret"), Atom("hunter2")}
Public == {Atom("ana")}
SensitiveKeys == {Chars("senha"), Chars("API_KEY"), Chars("user_token")}
PlainKeys == {Chars("nome"), Chars("dados")}

\* mappings with one sensitive key and one plain key holding a value of V,
\* in either order
DictsOver(V) ==
    {Dict(<<Item(ks, a), Item(kp, v)>>) :
        ks \in SensitiveKeys, a \in Secrets, kp \in {Chars("dados")}, v \in V} \cup
    {Dict(<<Item(kp, v), Item(ks, a)>>) :
        ks \in {Chars("Senha")}, a \in Secrets, kp \in PlainKeys, v \in V}

\* what stands behind the first element of a list
Followers == Public \cup {Dict(<<Item(Chars("token"), Atom("s3cret"))>>)}

\* lists of up to MaxListLen elements, the first one a value of V
ListsOver(V) ==
    {List(<<>>)} \cup
    UNION {{List(<<v>> \o rest) : v \in V, rest \in [1..(n - 1) -> Followers]} :
              n \in 1..MaxListLen}

RECURSIVE Values(_)
Values(depth) ==
    IF depth = 0 THEN Public
    ELSE LET V == Values(depth - 1) IN Public \cup DictsOver(V) \cup ListsOver(V)

SanitizeInputs == DictsOver(Values(MaxDepth))

\* the call: _log_workflow_start and _rollback_operation make it (241, 337)
SanitizeLogData ==
    /\ sanitize_out = Nothing
    /\ sanitize_out' = Sanitize(sanitize_in)
    /\ UNCHANGED <<engine, flow, coord_active, coord_start, audit, sanitize_in, outside>>

InitSanitize ==
    InitEngine(IdleEngineInputs) /\ InitCoordinator /\ InitSanitizer(SanitizeInputs)

NextSanitize == SanitizeLogData

SpecSanitize == InitSanitize /\ [][NextSanitize]_vars

\* ================================================================ claims
Entries(r) == wr[r].steps_results
HasEntry(r, s) == s \in DictKeys(Entries(r))
EntryOf(r, s) == DictGet(Entries(r), s)
Names(d) == [i \in DOMAIN d |-> d[i].name]
IsPrefix(p, q) == Len(p) <= Len(q) /\ \A i \in DOMAIN p : p[i] = q[i]
Done(r) == main[r].pc = "done"
CountEntries(r, kind) == Cardinality({i \in DOMAIN Entries(r) : Entries(r)[i].outcome = kind})
Counted(r) == wr[r].completed_steps + wr[r].failed_steps + wr[r].skipped_steps
Started(r) == Range(launched[r])
\* no execute_workflow call was made after the one of run r
Latest(r) == \A q \in Runs : q > r => main[q].pc = "idle"

\* C1: in parallel mode a step is started only when every step named in its
\* depends_on has ended COMPLETED; a dependency that ended FAILED or
\* SKIPPED never unblocks it.
C1_StartsOnlyAfterCompletedDeps ==
    [][\A r \in Runs : parallel_execution =>
          \A s \in Range(launched'[r]) \ Range(launched[r]) :
              \A d \in workflow_definitions[s].depends_on :
                  d \in StepNames /\ step[d].state = "completed"]_vars

\* the dependency graph is acyclic and names only defined steps
DependsOn(s) == workflow_definitions[s].depends_on
DepsWithin(S) == UNION {DependsOn(s) \cap StepNames : s \in S}
AllDeps(s) == LET d1 == DepsWithin({s})
                  d2 == d1 \cup DepsWithin(d1)
              IN  d2 \cup DepsWithin(d2)
WellFormed == \A s \in StepNames : DependsOn(s) \subseteq StepNames /\ s \notin AllDeps(s)

\* every action invoked in run r succeeded at its first attempt, no step was
\* skipped and the run was not cancelled
AllSucceeded(r) ==
    /\ ~cancelled[r]
    /\ wr[r].failed_steps = 0 /\ wr[r].skipped_steps = 0
    /\ \A s \in StepNames : \A i \in DOMAIN outcomes[r][s] : outcomes[r][s][i] = "ok"

\* C2: in parallel mode, with an acyclic graph over defined steps and every
\* action succeeding, every step is started and the run ends with
\* completed_steps = total_steps, whatever the order the steps finish in.
C2_AllStepsRunWhenAllSucceed ==
    \A r \in Runs :
        (parallel_execution /\ Done(r) /\ WellFormed /\ AllSucceeded(r)) =>
            /\ Started(r) = StepNames
            /\ wr[r].completed_steps = wr[r].total_steps

\* steps of run r whose coroutine is suspended in an await
InFlight(r) == {s \in StepNames : task[r][s].pc \in {"created", "cond", "call", "sleep"}}
IndexOf(s) == CHOOSE i \in DOMAIN Order : Order[i] = s
CriticalFailure(r, s) ==
    HasEntry(r, s) /\ EntryOf(r, s).outcome = "failed" /\ ~workflow_definitions[s].can_fail

C4_TerminalCountsEqualTotal ==
    \A r \in Runs : wr[r].state \in TerminalStates => Counted(r) = wr[r].total_steps

\* C4 as amended: once the workflow's state is terminal, each counter is
\* the number of steps_results entries of its kind, so the three add up to
\* the number of steps that ended in this run, which is at most total_steps
\* and equals it exactly when every step has an entry.
C4_TerminalCountsEqualEnded ==
    \A r \in Runs : wr[r].state \in TerminalStates =>
        /\ wr[r].completed_steps = CountEntries(r, "success")
        /\ wr[r].failed_steps = CountEntries(r, "failed")
        /\ wr[r].skipped_steps = CountEntries(r, "skipped")
        /\ Counted(r) = Cardinality(DictKeys(Entries(r)))
        /\ Counted(r) <= wr[r].total_steps
        /\ (Counted(r) = wr[r].total_steps <=> DictKeys(Entries(r)) = StepNames)

C4_Witness ==
    /\ Done(1) /\ wr[1].state = "failed"
    /\ wr[1].skipped_steps = 1 /\ wr[1].failed_steps = 1 /\ wr[1].completed_steps = 0
    /\ wr[1].total_steps = 3

\* C5: the final state of a run is FAILED exactly when a step with
\* can_fail = false ended FAILED in that run; when only can_fail steps
\* failed the run ends COMPLETED with failed_steps > 0 and those steps
\* recorded as failed.
C5_FailedIffCriticalFailure ==
    \A r \in Runs : Done(r) =>
        /\ wr[r].state = "failed" <=> \E s \in StepNames : CriticalFailure(r, s)
        /\ (wr[r].failed_steps > 0 /\ ~\E s \in StepNames : CriticalFailure(r, s)) =>
               wr[r].state = "completed"

\* C6: with max_retries = N the action is invoked at most N + 1 times in a
\* run; an attempt that succeeds ends the step COMPLETED with attempts = the
\* number of invocations so far, all earlier ones having failed, and the
\* action is not invoked again; when all N + 1 fail the step ends FAILED
\* with attempts = N + 1 and the last error recorded, and failed_steps and
\* errors grow by exactly one.
ErrorsOf(r, s) == {i \in DOMAIN wr[r].errors : wr[r].errors[i][1] = s}

C6_RetryProtocol ==
    \A r \in Runs : \A s \in StepNames :
        LET N == workflow_definitions[s].max_retries
            out == outcomes[r][s]
        IN
        /\ calls[r][s] <= N + 1
        /\ Len(wr[r].errors) = wr[r].failed_steps
        /\ wr[r].failed_steps = CountEntries(r, "failed")
        /\ (\E i \in DOMAIN out : out[i] = "ok") =>
              /\ HasEntry(r, s) /\ EntryOf(r, s).outcome = "success"
              /\ Latest(r) => step[s].state = "completed"
        /\ (HasEntry(r, s) /\ EntryOf(r, s).outcome = "success") =>
              /\ EntryOf(r, s).attempts = calls[r][s]
              /\ Len(out) = calls[r][s]
              /\ out[Len(out)] = "ok"
              /\ \A i \in 1..(Len(out) - 1) : out[i] # "ok"
              /\ ErrorsOf(r, s) = {}
        /\ (HasEntry(r, s) /\ EntryOf(r, s).outcome = "failed") =>
              /\ EntryOf(r, s).attempts = N + 1
              /\ calls[r][s] = N + 1
              /\ Len(out) = N + 1
              /\ \A i \in DOMAIN out : out[i] # "ok"
              /\ EntryOf(r, s).error = out[N + 1]
              /\ Latest(r) => step[s].state = "failed" /\ step[s].error = out[N + 1]
              /\ Cardinality(ErrorsOf(r, s)) = 1
              /\ \A i \in ErrorsOf(r, s) : wr[r].errors[i][2] = out[N + 1]
        /\ (Len(out) = N + 1 /\ \A i \in DOMAIN out : out[i] # "ok") =>
              HasEntry(r, s) /\ EntryOf(r, s).outcome = "failed"

C6_WitnessExhausted ==
    /\ workflow_definitions["A"].max_retries = 1
    /\ HasEntry(1, "A") /\ EntryOf(1, "A").outcome = "failed"
    /\ EntryOf(1, "A").attempts = 2 /\ outcomes[1]["A"] = <<"raise", "timeout">>
    /\ wr[1].errors = <<<<"A", "timeout">>>>

C6_Witness ==
    /\ workflow_definitions["B"].max_retries = 1
    /\ HasEntry(1, "B") /\ EntryOf(1, "B").outcome = "success"
    /\ EntryOf(1, "B").attempts = 2 /\ calls[1]["B"] = 2


\* C7: the action of a step is invoked only if the step has no condition or
\* its condition returned true; when the condition returns false or raises
\* the step is recorded SKIPPED, skipped_steps grows by one, the action is
\* not invoked, and neither the step nor the workflow is marked FAILED.
NotMet(r, s) == condres[r][s] \in {"false", "raise"}

C7_SkipInv ==
    \A r \in Runs : \A s \in StepNames :
        /\ calls[r][s] > 0 =>
              (workflow_definitions[s].condition = "none" \/ condres[r][s] = "true")
        /\ NotMet(r, s) =>
              /\ calls[r][s] = 0
              /\ HasEntry(r, s) /\ EntryOf(r, s).outcome = "skipped"
              /\ wr[r].skipped_steps = CountEntries(r, "skipped")
              /\ ErrorsOf(r, s) = {}
              /\ (\A t \in StepNames \ {s} : ~(HasEntry(r, t) /\ EntryOf(r, t).outcome = "failed"))
                    => (wr[r].failed_steps = 0 /\ wr[r].state # "failed")

C7_SkipStep ==
    \A r \in Runs : \A s \in StepNames :
        (~NotMet(r, s) /\ NotMet(r, s)') =>
            /\ step'[s].state = "skipped"
            /\ wr'[r].skipped_steps = wr[r].skipped_steps + 1
            /\ wr'[r].failed_steps = wr[r].failed_steps
            /\ wr'[r].state = wr[r].state
            /\ calls' = calls

C7_ConditionNotMetSkips == []C7_SkipInv /\ [][C7_SkipStep]_vars

C7_Witness ==
    /\ condres[1]["B"] = "raise"
    /\ HasEntry(1, "A") /\ EntryOf(1, "A").outcome = "success"
    /\ HasEntry(1, "B") /\ EntryOf(1, "B").outcome = "skipped"
    /\ Done(1) /\ wr[1].state = "completed" /\ wr[1].skipped_steps = 1

\* C8: execute_workflow runs on a clone of the defined steps: after any
\* number of execute_workflow calls every step of the stored definition is
\* still PENDING with retry_count 0 and neither result nor error.
C8_DefinitionKeepsNoRunState ==
    \A r \in Runs : Done(r) => \A s \in StepNames : step[s] = NewStep

\* C9: once cancel_workflow has returned True for a run, no step of it that
\* was not yet started is started: sequentially the step in progress is run
\* to its end and the later steps are left as they were (PENDING), in
\* parallel no step is launched any more and the tasks still in flight are
\* cancelled before the run ends.
C9_NoLaunch ==
    \A r \in Runs : cancelled[r] => launched'[r] = launched[r]

C9_AfterCancelInv ==
    \A r \in Runs : cancelled[r] =>
        /\ (~parallel_execution /\ Done(r)) =>
              /\ \A s \in Started(r) : HasEntry(r, s)
              /\ \A t \in StepNames \ Started(r) :
                    /\ Latest(r) => step[t] = step0[r][t]
                    /\ (r = 1 /\ Latest(r)) => step[t].state = "pending"
                    /\ calls[r][t] = 0
        /\ (parallel_execution /\ main[r].pc \in {"gather", "final"}) => InFlight(r) = {}

C9_WitnessParallel ==
    /\ parallel_execution /\ cancelled[1] /\ main[1].pc = "gather"
    /\ \E s \in StepNames : task[1][s].pc = "cancelled"
    /\ \E s \in StepNames : task[1][s].pc = "none"

\* ------------------------------------------------ claims on SpecCleanup
CleanupCalled == cleanups' # cleanups
Removed == active_workflows \ active_workflows'

\* C10 as claimed: cleanup_completed_workflows(max_age_hours=0) removes every
\* registry entry whose state is terminal and returns the number of entries
\* it removed; an entry whose state is not terminal is never removed.
C10_CleanupRemovesEveryTerminal ==
    [][CleanupCalled =>
          /\ cleanup_last'.max_age_hours = 0 =>
                \A r \in active_workflows :
                    wr[r].state \in TerminalStates => r \notin active_workflows'
          /\ cleanup_last'.returned = Cardinality(Removed)
          /\ \A r \in Removed : wr[r].state \in TerminalStates]_vars

\* C10 as amended: the call removes exactly the registry entries whose
\* state is terminal and whose end_time is set and earlier than the cutoff
\* (the time of the call for max_age_hours = 0), and returns their number;
\* an entry that is not terminal, or is terminal without an end_time (a run
\* cancelled and still in progress), is never removed.
C10_CleanupRemovesEndedTerminal ==
    [][CleanupCalled =>
          LET cutoff == now - cleanup_last'.max_age_hours * SecondsPerHour IN
          /\ active_workflows' \subseteq active_workflows
          /\ \A r \in active_workflows :
                r \in Removed <=>
                    (wr[r].state \in TerminalStates /\ wr[r].end_time # 0
                       /\ wr[r].end_time < cutoff)
          /\ \A r \in active_workflows :
                (wr[r].state \notin TerminalStates \/ main[r].pc # "done") =>
                    r \in active_workflows'
          /\ cleanup_last'.returned = Cardinality(Removed)
          /\ wr' = wr]_vars

C10_Witness ==
    /\ cleanups = 1
    /\ cleanup_last.max_age_hours = 0
    /\ cleanup_last.terminal_before = {1}
    /\ cleanup_last.returned = 0
    /\ 1 \in active_workflows /\ wr[1].state = "cancelled" /\ wr[1].end_time = 0

\* -------------------------------------------------- claims on SpecCalls
\* the engine's state apart from the clock
EngineState == <<step, active_workflows, wr, main, task, calls, condres, launched>>

\* C11 as claimed: execute_workflow with a name that was never defined fails
\* with NotFoundError, before any effect: nothing is registered and no
\* condition or action is invoked.
C11_UndefinedNameNotFoundError ==
    [][raised' # raised =>
          /\ raised'[Len(raised')] = "NotFoundError"
          /\ UNCHANGED EngineState]_vars

\* C11 as amended: the call fails with ValueError, before any effect.
C11_UndefinedNameValueError ==
    [][raised' # raised =>
          /\ raised'[Len(raised')] = "ValueError"
          /\ UNCHANGED EngineState]_vars

C11_Witness ==
    /\ Len(raised) = 1
    /\ active_workflows = {1} /\ main[1].pc = "step"
    /\ Len(launched[1]) = 1

\* -------------------------------------------------- claims on SpecFlows
FlowEnded(f) == flow[f].pc \in {"done", "raised"}

\* C12: every domain flow returns an OrchestrationResult whatever the gateway
\* answers and whichever steps fail: no exception leaves the flow.
C12_FlowsAlwaysReturnResult ==
    \A f \in FlowIds :
        /\ flow[f].escaped = "none"
        /\ FlowEnded(f) => flow[f].pc = "done" /\ flow[f].result.status # "none"

\* ------------------------------------------------ claims on SpecSanitize
\* the strings a value holds, at any depth
RECURSIVE AtomsOf(_)
AtomsOf(v) ==
    IF v.kind = "atom" THEN {v}
    ELSE UNION {AtomsOf(v.items[i].value) : i \in DOMAIN v.items}

\* every sensitive key of a value, at any depth, holds the marker
RECURSIVE AllRedacted(_)
AllRedacted(v) ==
    \A i \in DOMAIN v.items :
        IF v.kind = "dict" /\ Sensitive(v.items[i].key)
        THEN v.items[i].value = Redacted
        ELSE AllRedacted(v.items[i].value)

\* the value with every value under a sensitive key, at any depth and in
\* every element of every list, replaced by one fixed string
RECURSIVE Masked(_)
Masked(v) ==
    IF v.kind = "atom" THEN v
    ELSE [v EXCEPT !.items =
             [i \in DOMAIN v.items |->
                 IF v.kind = "dict" /\ Sensitive(v.items[i].key)
                 THEN Item(v.items[i].key, Atom("*"))
                 ELSE Item(v.items[i].key, Masked(v.items[i].value))]]

Sanitized == sanitize_out # Nothing

\* C13: the output of _sanitize_log_data holds no value the input stored
\* under a sensitive key, at any depth: each such value is replaced by
\* "[REDACTED]", and the output is the same for two inputs that differ only
\* in those values.
C13_SanitizeHidesSecrets ==
    Sanitized =>
        /\ AtomsOf(sanitize_out) \cap Secrets = {}
        /\ AllRedacted(sanitize_out)
        /\ sanitize_out = Sanitize(Masked(sanitize_in))

\* a secret two mappings and a list deep, behind an upper-case key
C13_Witness ==
    /\ Sanitized
    /\ \E i \in DOMAIN sanitize_in.items :
          LET v == sanitize_in.items[i].value IN
          /\ v.kind = "list" /\ Len(v.items) = 2
          /\ v.items[1].value.kind = "dict"
          /\ \E j \in DOMAIN v.items[1].value.items :
                /\ v.items[1].value.items[j].key = Chars("API_KEY")
                /\ v.items[1].value.items[j].value \in Secrets
          /\ v.items[2].value.kind = "dict"
          /\ sanitize_out.items[i].value.kind = "list"

\* the execution of run r is in progress: _execute_steps was entered and has
\* not returned or raised
InProgress(r) == main[r].pc \notin {"idle", "done"}

\* C14: a workflow id is in the registry of the engine exactly while its
\* execution is in progress: list_active_workflows holds the ids of the runs
\* in progress and no others, and once the execution has returned (completed
\* or failed, after a cancellation, or after an exception that left the
\* engine's loops) get_workflow_status gives None for the id.
C14_RegisteredWhileInProgress ==
    \A r \in Runs :
        /\ r \in ListActiveWorkflows <=> InProgress(r)
        /\ InProgress(r) => GetWorkflowStatus(r) = {wr[r]}
        /\ Done(r) => GetWorkflowStatus(r) = {}

\* a run returned after a cancellation request and its id is gone
C14_Witness ==
    \E r \in Runs :
        /\ Done(r) /\ cancelled[r] /\ raised = <<>>
        /\ r \notin ListActiveWorkflows

\* a run ended by an exception and its id is gone
C14_WitnessAborted ==
    \E r \in Runs :
        /\ Done(r) /\ raised # <<>>
        /\ GetWorkflowStatus(r) = {}
        /\ \E s \in StepNames : step[s].state = "running"
\* the steps run r has counted in the counter that goes with outcome kind
CountedAs(r, kind) == {s \in StepNames : HasEntry(r, s) /\ EntryOf(r, s).outcome = kind}

\* C15: in every state of a run the three counters together never exceed
\* total_steps, and they count each step at most once and in at most one
\* counter: each counter is the number of steps that ended that way.
C15_CountersWithinTotal ==
    \A r \in Runs : wr[r].state # "none" =>
        /\ Counted(r) <= wr[r].total_steps
        /\ wr[r].completed_steps = Cardinality(CountedAs(r, "success"))
        /\ wr[r].failed_steps = Cardinality(CountedAs(r, "failed"))
        /\ wr[r].skipped_steps = Cardinality(CountedAs(r, "skipped"))

\* a run that counted one step of each kind, the failed one after a retry
C15_Witness ==
    \E r \in Runs :
        /\ wr[r].completed_steps = 1 /\ wr[r].failed_steps = 1 /\ wr[r].skipped_steps = 1
        /\ \E s \in StepNames : Len(outcomes[r][s]) = 2 /\ EntryOf(r, s).outcome = "failed"
\* the attempts of step s in run r that ended, and those that failed or timed out
Attempts(r, s) == Len(outcomes[r][s])
LastAttemptEnded(r, s) ==
    /\ Attempts(r, s) > 0
    /\ \/ outcomes[r][s][Attempts(r, s)] = "ok"
       \/ Attempts(r, s) = workflow_definitions[s].max_retries + 1

\* C16: after the failed or timed-out attempt number i (from 0) the step
\* waits 2^i seconds before the next attempt.  It waits only when another
\* attempt is due: there is one wait after each failed attempt but the last
\* one allowed, none after a success; the next attempt starts only when the
\* wait is over.
C16_ExponentialBackoff ==
    \A r \in Runs, s \in StepNames :
        /\ \A i \in DOMAIN waits[r][s] :
              /\ waits[r][s][i] = 2 ^ (i - 1)
              /\ outcomes[r][s][i] # "ok"
        /\ Len(waits[r][s]) = IF LastAttemptEnded(r, s) THEN Attempts(r, s) - 1
                               ELSE Attempts(r, s)
        /\ Len(waits[r][s]) <= workflow_definitions[s].max_retries
        /\ task[r][s].pc = "sleep" => calls[r][s] = Len(waits[r][s])
        /\ task[r][s].pc = "call" => calls[r][s] = Len(waits[r][s]) + 1

\* a step waited 1, 2 and 4 seconds, one attempt timing out and one failing,
\* and then succeeded
C16_Witness ==
    \E r \in Runs, s \in StepNames :
        /\ waits[r][s] = <<1, 2, 4>>
        /\ \E i, j \in 1..3 : outcomes[r][s][i] = "timeout" /\ outcomes[r][s][j] = "raise"
        /\ Attempts(r, s) = 4 /\ outcomes[r][s][4] = "ok"
        /\ step[s].state = "completed"

\* a step used up its attempts: two waits, none after the last failure
C16_WitnessExhausted ==
    \E r \in Runs, s \in StepNames :
        /\ workflow_definitions[s].max_retries = 2
        /\ waits[r][s] = <<1, 2>>
        /\ Attempts(r, s) = 3 /\ step[s].state = "failed"
\* the steps whose dependencies can be satisfied: those without dependencies,
\* then those that depend on such steps only, and so on
Satisfiable ==
    LET more(S) == {s \in StepNames : DependsOn(s) \subseteq S}
    IN  more(more(more({})))
Blocked == StepNames \ Satisfiable

C17_BlockedInv ==
    \A r \in Runs :
        /\ \A s \in Blocked :
              /\ s \notin Started(r) /\ calls[r][s] = 0 /\ ~HasEntry(r, s)
              /\ task[r][s].pc = "none"
              /\ step[s].state = "pending"
        /\ Done(r) /\ ~cancelled[r] =>
              \A s \in Started(r) : HasEntry(r, s) /\ step[s].state \in {"completed", "failed", "skipped"}
        /\ Done(r) => wr[r].state \in {"completed", "failed"} /\ wr[r].end_time # 0

\* C17: in parallel mode a workflow with a step whose dependencies can never
\* be satisfied (a cycle, or a name that is not a step) still terminates: the
\* blocked steps are never started and stay PENDING, the steps that were
\* started have finished when the engine stops, and execute_workflow returns
\* a WorkflowResult.
C17_BlockedStepsDoNotHang ==
    /\ []C17_BlockedInv
    /\ <>(Done(1) /\ Blocked # {})

\* a run ended with its runnable steps finished and two steps of a cycle
\* never started
C17_Witness ==
    /\ Done(1) /\ ~cancelled[1]
    /\ Blocked = {"B", "C"} /\ Started(1) = {"A"}
    /\ wr[1].completed_steps = 1 /\ wr[1].total_steps = 3

\* the same for a dependency that is not a step of the workflow
C17_WitnessUndefined ==
    /\ Done(1) /\ ~cancelled[1]
    /\ Blocked = {"C"} /\ Started(1) = {"A", "B"}
    /\ wr[1].state = "completed"
\* the create_question flows that returned, and what became of their steps
QuestionFlowEnded(f) == flow[f].type = "create_question" /\ flow[f].pc = "done"
Invoked(f) == Range(flow[f].invoked)
StepFailedIn(f, s) == s \in Invoked(f) /\ s \notin flow[f].done
FieldSet(f, x) == x \in flow[f].result.data

\* what C18 says of every create_question flow, but for the enrichment fields
C18_Outcome(f) ==
    LET fatal == {"validate_question_data", "create_question"} IN
    /\ flow[f].result.success <=> fatal \subseteq flow[f].done
    /\ flow[f].result.success <=> flow[f].result.status = "success"
    /\ StepFailedIn(f, "validate_question_data") =>
          Invoked(f) = {"validate_question_data"} /\ ~flow[f].result.success
    /\ StepFailedIn(f, "create_question") =>
          Invoked(f) = fatal /\ ~flow[f].result.success
    /\ ~flow[f].result.success => flow[f].result.data = {}

\* C18 as stated: create_question_flow succeeds iff validate and create
\* succeed; a failed validate or create gives a failed result with no later
\* step invoked; a failed embedding, find-similar or recommendation step
\* leaves only its own field unset, so in a successful result each field is
\* set exactly when its step was asked for and did not fail.
C18_EnrichmentFailureLeavesOwnFieldOnly ==
    \A f \in FlowIds : QuestionFlowEnded(f) =>
        /\ C18_Outcome(f)
        /\ flow[f].result.success =>
              /\ FieldSet(f, "embedding_created") <=> ~StepFailedIn(f, "create_embedding")
              /\ FieldSet(f, "similar_questions") <=>
                    flow[f].opt1 /\ ~StepFailedIn(f, "find_similar_questions")
              /\ FieldSet(f, "recommendations") <=>
                    flow[f].opt2 /\ ~StepFailedIn(f, "generate_recommendations")

\* C18 amended: as above, but find-similar is invoked only after the
\* embedding step succeeded, so a failed embedding step leaves both
\* embedding_created and similar_questions unset.
C18_EnrichmentFailureNeverFails ==
    \A f \in FlowIds : QuestionFlowEnded(f) =>
        /\ C18_Outcome(f)
        /\ flow[f].result.success =>
              /\ FieldSet(f, "embedding_created") <=> ~StepFailedIn(f, "create_embedding")
              /\ "find_similar_questions" \in Invoked(f) <=>
                    flow[f].opt1 /\ ~StepFailedIn(f, "create_embedding")
              /\ FieldSet(f, "similar_questions") <=>
                    /\ flow[f].opt1 /\ ~StepFailedIn(f, "create_embedding")
                    /\ ~StepFailedIn(f, "find_similar_questions")
              /\ FieldSet(f, "recommendations") <=>
                    flow[f].opt2 /\ ~StepFailedIn(f, "generate_recommendations")

\* a successful create_question flow whose embedding step failed with
\* find_similar asked for, and whose recommendations were generated
C18_Witness ==
    \E f \in FlowIds :
        /\ QuestionFlowEnded(f) /\ flow[f].result.success
        /\ flow[f].opt1 /\ flow[f].opt2
        /\ StepFailedIn(f, "create_embedding")
        /\ flow[f].result.data = {"recommendations"}
        /\ flow[f].result.steps_completed = 2
\* everything but the WorkflowResult objects and the record of refused calls
BesidesResults ==
    <<config, raised, coordinator, step, active_workflows, main, task, now, hist>>

\* what a step of pause_workflow or resume_workflow does, and that no other
\* step takes a workflow into or out of PAUSED except by ending or
\* cancelling it
C19_PauseStep ==
    /\ \A r \in Runs :
          /\ wr'[r].state = "paused" /\ wr[r].state # "paused" =>
                /\ r \in active_workflows /\ wr[r].state = "running"
                /\ wr' = [wr EXCEPT ![r].state = "paused"]
                /\ UNCHANGED <<BesidesResults, refused>>
          /\ wr[r].state = "paused" /\ wr'[r].state = "running" =>
                /\ r \in active_workflows
                /\ wr' = [wr EXCEPT ![r].state = "running"]
                /\ UNCHANGED <<BesidesResults, refused>>
    /\ refused' # refused =>
          LET c == refused'[Len(refused')] IN
          /\ UNCHANGED <<BesidesResults, wr>>
          /\ c.call = "pause_workflow" =>
                ~(c.workflow_id \in active_workflows /\ wr[c.workflow_id].state = "running")
          /\ c.call = "resume_workflow" =>
                ~(c.workflow_id \in active_workflows /\ wr[c.workflow_id].state = "paused")

\* the outcome of a started step as the outcomes of its condition and of its
\* attempts determine it
OutcomeOf(r, s) ==
    IF NotMet(r, s) THEN "skipped"
    ELSE IF outcomes[r][s][Attempts(r, s)] = "ok" THEN "success"
    ELSE "failed"

\* a run that was not cancelled ends as its steps' outcomes determine,
\* paused or not: in sequential mode the steps up to the first failed one
\* were started, in parallel mode all of them, each has run to its end, and
\* a paused workflow is one that is still in progress
C19_PausedRunsGoOn ==
    \A r \in Runs :
        /\ wr[r].state = "paused" => InProgress(r)
        /\ Done(r) /\ ~cancelled[r] =>
              /\ \A s \in StepNames :
                    s \in Started(r) <=>
                        \/ parallel_execution
                        \/ \A q \in StepNames :
                              IndexOf(q) < IndexOf(s) =>
                                  HasEntry(r, q) /\ EntryOf(r, q).outcome # "failed"
              /\ \A s \in Started(r) :
                    HasEntry(r, s) /\ EntryOf(r, s).outcome = OutcomeOf(r, s)
              /\ wr[r].state = FinalState(r)

\* C19: pause_workflow and resume_workflow only toggle the state of a
\* registered workflow between RUNNING and PAUSED, a call on any other
\* workflow returns False and changes nothing, and pausing suspends nothing:
\* a paused run goes on starting and finishing its steps and ends with the
\* outcomes its steps' actions and conditions determine, resumed or not.
C19_PauseIsBookkeepingOnly ==
    /\ []C19_PausedRunsGoOn
    /\ [][C19_PauseStep]_vars
    /\ \A r \in Runs : [](wr[r].state = "paused" => <>Done(r))

\* a sequential run reached its end paused, with its three steps run: one
\* after a retry, one skipped
C19_Witness ==
    /\ ~parallel_execution
    /\ wr[1].state = "paused" /\ main[1].pc = "final" /\ ~cancelled[1]
    /\ Started(1) = StepNames
    /\ Len(waits[1]["A"]) = 1 /\ wr[1].completed_steps = 2 /\ wr[1].skipped_steps = 1

\* pause_workflow returned False for a workflow that is paused already
C19_WitnessRefused ==
    /\ refused = <<[call |-> "pause_workflow", workflow_id |-> 1]>>
    /\ wr[1].state = "paused" /\ 1 \in active_workflows
\* C20: a step whose action is a synchronous callable that returns normally
\* is invoked exactly once and ends COMPLETED with the returned value as its
\* result, as a step with an asynchronous action does.
C20_SyncActionRunsOnce ==
    \A r \in Runs, s \in StepNames :
        workflow_definitions[s].sync =>
            /\ calls[r][s] <= 1
            /\ task[r][s].pc = "finished" =>
                  /\ step[s].state = "completed" /\ step[s].result
                  /\ HasEntry(r, s) /\ EntryOf(r, s).outcome = "success"
                  /\ EntryOf(r, s).attempts = 1

\* what the engine does with such a step: every attempt invokes the callable
\* and fails, and the step ends FAILED when the attempts are used up
C20_SyncActionFails ==
    \A r \in Runs, s \in StepNames :
        workflow_definitions[s].sync /\ task[r][s].pc = "finished" =>
            /\ step[s].state = "failed" /\ ~step[s].result
            /\ calls[r][s] = workflow_definitions[s].max_retries + 1
            /\ EntryOf(r, s).outcome = "failed"
\* two calls one after the other on the same workflow, both answered, with
\* no step of the workflow in between
SameWorkflowTwice(i) ==
    /\ i + 1 \in DOMAIN status_seen
    /\ status_seen[i].who = status_seen[i + 1].who
    /\ status_seen[i].workflow_id = status_seen[i + 1].workflow_id
    /\ status_seen[i].found /\ status_seen[i + 1].found
    /\ status_seen[i].work = status_seen[i + 1].work

\* a get_workflow_status call changes nothing but what the caller has seen
C21_StatusCallReadsOnly ==
    status_seen' # status_seen =>
        UNCHANGED <<config, raised, refused, coordinator, step, active_workflows, wr, main,
                    task, hist>>

\* C21 as stated: two get_workflow_status calls on the same workflow in
\* progress with no step in between return a current_duration_ms that does
\* not decrease and the same completed_steps, and a call changes neither the
\* registry nor the stored record.
C21_StatusHasDurationAndSteps ==
    /\ [](\A i \in DOMAIN status_seen : SameWorkflowTwice(i) =>
            /\ {"current_duration_ms", "completed_steps"} \subseteq status_seen[i].fields
            /\ status_seen[i + 1].current_duration_ms >= status_seen[i].current_duration_ms
            /\ status_seen[i + 1].completed_steps = status_seen[i].completed_steps)
    /\ [][C21_StatusCallReadsOnly]_vars

\* C21 amended: the Coordinator's call returns the current_duration_ms, which
\* does not decrease, the engine's call returns the WorkflowResult with its
\* completed_steps, which is unchanged; neither returns both, and neither
\* changes the registry or the stored record.
C21_StatusIsStable ==
    /\ [](\A i \in DOMAIN status_seen : SameWorkflowTwice(i) =>
            /\ status_seen[i].who = "coordinator" =>
                  /\ "current_duration_ms" \in status_seen[i].fields
                  /\ "completed_steps" \notin status_seen[i].fields
                  /\ status_seen[i + 1].current_duration_ms
                        >= status_seen[i].current_duration_ms
            /\ status_seen[i].who = "engine" =>
                  /\ "completed_steps" \in status_seen[i].fields
                  /\ "current_duration_ms" \notin status_seen[i].fields
                  /\ status_seen[i + 1].completed_steps = status_seen[i].completed_steps)
    /\ [][C21_StatusCallReadsOnly]_vars

\* the coordinator was asked twice about a running flow, a second apart, and
\* the flow had not moved
C21_Witness ==
    /\ Len(status_seen) = 2 /\ SameWorkflowTwice(1)
    /\ status_seen[1].who = "coordinator"
    /\ status_seen[2].current_duration_ms = status_seen[1].current_duration_ms + 1000

\* the engine was asked twice about a run that had completed a step
C21_WitnessEngine ==
    /\ Len(status_seen) = 2 /\ SameWorkflowTwice(1)
    /\ status_seen[1].who = "engine" /\ status_seen[2].completed_steps = 1

\* the results the flows have returned
Returned == {flow[f].result : f \in {g \in FlowIds : flow[g].pc = "done"}}

\* C22: every result a constructor built and every result a flow returned
\* has status partial_success if it reports success together with errors
C22_ErrorsWithSuccessOnlyPartial ==
    \A res \in {built} \cup Returned :
        res.success /\ res.errors # <<>> => res.status = "partial_success"

\* a successful result that carries errors was built
C22_Witness ==
    built.success /\ built.errors # <<>> /\ built.status = "partial_success"

\* a flow returned a success although one of its best-effort steps failed
C22_WitnessFlow ==
    \E f \in FlowIds :
        /\ flow[f].pc = "done" /\ flow[f].result.success
        /\ \E i \in DOMAIN flow[f].invoked : flow[f].invoked[i] \notin flow[f].done

\* the step the flow is waiting for, "none" when it awaits no step
Awaited(f) ==
    IF flow[f].pc = "step" THEN FlowSteps(flow[f].type)[flow[f].at].step ELSE "none"

\* the step was invoked in flow f and has raised
HasFailed(f, s) == StepFailedIn(f, s) /\ Awaited(f) # s

\* the position of step s among the calls flow f has made, 0 if it was not
Position(f, s) ==
    IF s \in Invoked(f)
    THEN CHOOSE i \in DOMAIN flow[f].invoked : flow[f].invoked[i] = s
    ELSE 0

\* find-similar was called only when asked for and after a successful
\* embedding call, and never once the embedding call has failed
C23_Gated ==
    \A f \in FlowIds :
        flow[f].type = "create_question" =>
            /\ "find_similar_questions" \in Invoked(f) =>
                  /\ flow[f].opt1
                  /\ "create_embedding" \in flow[f].done
                  /\ 0 < Position(f, "create_embedding")
                  /\ Position(f, "create_embedding") < Position(f, "find_similar_questions")
            /\ HasFailed(f, "create_embedding") =>
                  "find_similar_questions" \notin Invoked(f)

\* the step in which the embedding call of flow f raises leads to the
\* recommendation call if that was asked for, and to a success result if not
C23_GoesOn ==
    \A f \in FlowIds :
        /\ flow[f].type = "create_question"
        /\ Awaited(f) = "create_embedding"
        /\ HasFailed(f, "create_embedding")'
        => IF flow[f].opt2
           THEN /\ Awaited(f)' = "generate_recommendations"
                /\ flow'[f].invoked = Append(flow[f].invoked, "generate_recommendations")
           ELSE /\ flow'[f].pc = "done"
                /\ flow'[f].result.success
                /\ flow'[f].invoked = flow[f].invoked

\* C23: in create_question_flow find-similar is invoked only if it was asked
\* for and the embedding call succeeded earlier in the same run; when the
\* embedding call failed find-similar is never invoked and the flow goes on
\* to the recommendation step
C23_FindSimilarOnlyAfterEmbedding == [](C23_Gated) /\ [][C23_GoesOn]_vars

\* the embedding call failed with both options asked for, and the flow is
\* waiting for the recommendations, with no find-similar call made
C23_Witness ==
    \E f \in FlowIds :
        /\ flow[f].type = "create_question" /\ flow[f].opt1 /\ flow[f].opt2
        /\ HasFailed(f, "create_embedding")
        /\ Awaited(f) = "generate_recommendations"

\* find-similar is awaited after the embedding call succeeded
C23_WitnessInvoked ==
    \E f \in FlowIds :
        /\ Awaited(f) = "find_similar_questions"
        /\ "create_embedding" \in flow[f].done

\* ---------------------------------------------------- claims on SpecAudit
\* the audit records of flow f with this status, and its end records
RecordsOf(f, status) ==
    {i \in DOMAIN audit : audit[i].workflow_id = f /\ audit[i].status = status}
EndRecords(f) ==
    {i \in DOMAIN audit : audit[i].workflow_id = f /\ audit[i].status # "started"}

\* the entry of a flow exists from its start record until an end record
C24_Registered ==
    \A f \in FlowIds :
        /\ f \in coord_active <=> RecordsOf(f, "started") # {} /\ EndRecords(f) = {}
        /\ flow[f].pc = "done" => f \notin coord_active

\* a get_workflow_status or cancel_workflow call on a flow that has returned
\* finds nothing
C24_CallsAfterReturn ==
    /\ \A f \in FlowIds :
          /\ flow[f].pc = "done"
          /\ Len(status_seen') = Len(status_seen) + 1
          /\ status_seen'[Len(status_seen')].who = "coordinator"
          /\ status_seen'[Len(status_seen')].workflow_id = f
          => ~status_seen'[Len(status_seen')].found
    /\ \A f \in FlowIds :
          /\ flow[f].pc = "done"
          /\ Len(cancel_seen') = Len(cancel_seen) + 1
          /\ cancel_seen'[Len(cancel_seen')].workflow_id = f
          => ~cancel_seen'[Len(cancel_seen')].returned

\* C24: the id of a domain flow run is in Coordinator._active_workflows from
\* the completion of _log_workflow_start until _log_workflow_end, and once
\* the flow has returned a result the id is absent: get_workflow_status
\* returns None and cancel_workflow returns False
C24_EntryFromStartToEnd == [](C24_Registered) /\ [][C24_CallsAfterReturn]_vars

\* a flow has returned and cancel_workflow was then called with its id
C24_Witness ==
    \E f \in FlowIds :
        /\ flow[f].pc = "done" /\ f \notin coord_active
        /\ cancel_seen = <<CancelSeen(f, FALSE)>>
        /\ RecordsOf(f, "started") # {}

\* a flow has returned and get_workflow_status was then called with its id
C24_WitnessStatus ==
    \E f \in FlowIds :
        /\ flow[f].pc = "done" /\ status_seen # <<>>
        /\ status_seen[Len(status_seen)].work = FlowWork(f)
        /\ ~status_seen[Len(status_seen)].found
        /\ cancel_seen = <<>>

\* a flow is waiting for a step and its entry is there
C24_WitnessRunning ==
    \E f \in FlowIds : flow[f].pc = "step" /\ f \in coord_active

\* C30: for each workflow id the audit log receives exactly one started
\* record and, after it, exactly one end record carrying the flow's workflow
\* type, also when cancel_workflow is called while the flow is running
C30_OneStartOneEnd ==
    \A f \in FlowIds :
        /\ Cardinality(RecordsOf(f, "started")) <= 1
        /\ Cardinality(EndRecords(f)) <= 1
        /\ \A i \in EndRecords(f) :
              /\ \E j \in RecordsOf(f, "started") : j < i
              /\ audit[i].workflow_type = flow[f].type
        /\ flow[f].pc = "done" =>
              Cardinality(RecordsOf(f, "started")) = 1 /\ Cardinality(EndRecords(f)) = 1

\* what the code does: one started record; one end record with the flow's
\* type, and after a cancel_workflow call that returned True a second one
\* from the flow itself, with the type "unknown"
C30_SecondEndAfterCancel ==
    \A f \in FlowIds :
        LET cancels == {i \in DOMAIN cancel_seen :
                           cancel_seen[i].workflow_id = f /\ cancel_seen[i].returned}
        IN /\ Cardinality(RecordsOf(f, "started")) <= 1
           /\ Cardinality(EndRecords(f)) <= 1 + Cardinality(cancels)
           /\ \A i \in EndRecords(f) :
                 /\ \E j \in RecordsOf(f, "started") : j < i
                 /\ audit[i].workflow_type =
                       IF \A k \in EndRecords(f) : i <= k THEN flow[f].type ELSE "unknown"
           /\ flow[f].pc = "done" =>
                 Cardinality(EndRecords(f)) = 1 + Cardinality(cancels)

\* ----------------------------------------------------- claims on SpecTwin
\* the outcomes of the attempts with timeouts and raised errors not told apart
Alike(out) ==
    [i \in DOMAIN out |-> IF out[i] \in {"raise", "timeout"} THEN "failed" ELSE out[i]]

\* runs 1 and 2 are over and differ at most in which failed attempts were
\* timeouts and which raised
TwinRuns ==
    /\ main[1].pc = "done" /\ main[2].pc = "done"
    /\ \A s \in StepNames : Alike(outcomes[1][s]) = Alike(outcomes[2][s])

\* the entry of step s in steps_results of run r, but for the error message
EntryButError(r, s) ==
    IF HasEntry(r, s)
    THEN [outcome |-> EntryOf(r, s).outcome, attempts |-> EntryOf(r, s).attempts]
    ELSE [outcome |-> "none", attempts |-> 0]

\* C25: a timeout and a raised error are treated alike by the retry protocol:
\* two runs of a workflow whose attempts ended alike but for timeouts
\* replaced by raised errors (or the reverse) make the same number of
\* attempts with the same backoff waits, leave each step in the same state
\* with retry_count grown by the same amount, and end with the same state
\* and counters; only the error messages differ
C25_TimeoutAndErrorAlike ==
    TwinRuns =>
        /\ \A s \in StepNames :
              /\ calls[1][s] = calls[2][s]
              /\ waits[1][s] = waits[2][s]
              /\ EntryButError(1, s) = EntryButError(2, s)
              /\ step0[2][s].state = step[s].state
              /\ step0[2][s].retry_count - step0[1][s].retry_count
                    = step[s].retry_count - step0[2][s].retry_count
        /\ launched[1] = launched[2]
        /\ wr[1].state = wr[2].state
        /\ wr[1].total_steps = wr[2].total_steps
        /\ wr[1].completed_steps = wr[2].completed_steps
        /\ wr[1].failed_steps = wr[2].failed_steps
        /\ wr[1].skipped_steps = wr[2].skipped_steps
        /\ Len(wr[1].errors) = Len(wr[2].errors)

\* step A timed out twice and then succeeded in one run, and raised twice
\* and then succeeded in the other
C25_Witness ==
    /\ TwinRuns
    /\ outcomes[1]["A"] = <<"timeout", "timeout", "ok">>
    /\ outcomes[2]["A"] = <<"raise", "raise", "ok">>
    /\ waits[2]["A"] = <<1, 2>>

\* step A used up its attempts, the last one timing out in one run and
\* raising in the other, and both runs failed
C25_WitnessExhausted ==
    /\ TwinRuns
    /\ outcomes[1]["A"] = <<"raise", "timeout">>
    /\ outcomes[2]["A"] = <<"timeout", "raise">>
    /\ wr[1].state = "failed" /\ wr[2].state = "failed"
    /\ wr[1].errors # wr[2].errors

\* ------------------------------------------------------- claims on Spec
\* C26: CANCELLED is a terminal state: once cancel_workflow has set it the
\* state of the run never changes again, and the WorkflowResult the run
\* returns has state CANCELLED
C26_CancelledIsTerminal ==
    \A r \in Runs : cancelled[r] => wr[r].state = "cancelled"

\* what the code does: the state stays CANCELLED while the run goes on, and
\* the end of _execute_steps replaces it by COMPLETED or FAILED
C26_CancelledUntilFinalState ==
    \A r \in Runs : cancelled[r] =>
        IF Done(r) THEN wr[r].state \in {"completed", "failed"}
        ELSE wr[r].state = "cancelled"

\* -------------------------------------------------- claims on SpecOverlap
\* C27: for two overlapping execute_workflow calls on the same workflow the
\* final state and the counters of each result depend only on that call's
\* own step outcomes: the run is FAILED exactly when a step with
\* can_fail = false failed in it, and the counters count its own entries
C27_OverlappingRunsIndependent ==
    \A r \in Runs : Done(r) =>
        /\ wr[r].state = "failed" <=> \E s \in StepNames : CriticalFailure(r, s)
        /\ wr[r].state \in {"failed", "completed"}
        /\ wr[r].completed_steps = CountEntries(r, "success")
        /\ wr[r].failed_steps = CountEntries(r, "failed")
        /\ wr[r].skipped_steps = CountEntries(r, "skipped")

\* what the code does: the counters are the run's own, the final state is
\* read from the step objects both runs write
C27_CountersOwnStateShared ==
    \A r \in Runs : Done(r) =>
        /\ wr[r].completed_steps = CountEntries(r, "success")
        /\ wr[r].failed_steps = CountEntries(r, "failed")
        /\ wr[r].skipped_steps = CountEntries(r, "skipped")
        /\ wr[r].state = "failed" =>
              /\ wr[r].failed_steps > 0
              /\ \E q \in Runs, s \in StepNames : CriticalFailure(q, s)

\* -------------------------------------------------- claims on SpecAnswers
\* the create_answer_flow runs that returned question_updated = true
Updated ==
    {f \in FlowIds : flow[f].pc = "done" /\ "question_updated" \in flow[f].result.data}

\* every create_answer_flow run has returned question_updated = true
AllUpdated == Updated = FlowIds

\* C28: when N overlapping create_answer_flow runs for the same question
\* each report question_updated = true, the question's respostas_count ends
\* exactly N higher than it was: no increment is lost
C28_NoLostIncrement ==
    AllUpdated => respostas_count = Cardinality(FlowIds)

\* what the code does: each run writes the count it read plus one, so the
\* count ends between one and N higher
C28_AtLeastOneIncrement ==
    AllUpdated => respostas_count \in 1..Cardinality(FlowIds)

\* ----------------------------------------------------- claims on SpecAuth
\* the steps that must have passed before a token is generated, in order,
\* and the steps that come after them
AuthGates == <<"find_user_by_email", "verify_password", "check_account_status">>
AuthGrants == {"generate_auth_tokens", "create_user_session", "update_last_login"}

\* the documents flow f has written to a collection
Written(f, collection) ==
    {i \in DOMAIN documents :
        documents[i].workflow_id = f /\ documents[i].collection = collection}

\* C29: in authenticate_user_flow token generation (and session creation
\* and the last-login update) is invoked only after the user was found, the
\* password verified and the account status checked, in that order; if one
\* of those steps fails the flow returns a failed result without access
\* token, and no token or session record is written
C29_TokensOnlyAfterChecks ==
    \A f \in FlowIds : flow[f].type = "authenticate_user" =>
        /\ \A g \in AuthGrants : g \in Invoked(f) =>
              /\ \A i \in DOMAIN AuthGates :
                    /\ AuthGates[i] \in flow[f].done
                    /\ 0 < Position(f, AuthGates[i])
                    /\ Position(f, AuthGates[i]) < Position(f, g)
              /\ Position(f, AuthGates[1]) < Position(f, AuthGates[2])
              /\ Position(f, AuthGates[2]) < Position(f, AuthGates[3])
        /\ \A i \in DOMAIN AuthGates : HasFailed(f, AuthGates[i]) =>
              /\ flow[f].pc = "done"
              /\ ~flow[f].result.success /\ flow[f].result.status = "failed"
              /\ "access_token" \notin flow[f].result.data
              /\ AuthGrants \cap Invoked(f) = {}
              /\ Written(f, "auth_tokens") = {} /\ Written(f, "user_sessions") = {}
              /\ Written(f, "usuarios") = {}
        /\ Written(f, "auth_tokens") # {} => "generate_auth_tokens" \in flow[f].done
        /\ Written(f, "user_sessions") # {} => "create_user_session" \in flow[f].done

\* the account-status check failed after the password was verified: a
\* failed result, nothing written
C29_Witness ==
    \E f \in FlowIds :
        /\ flow[f].type = "authenticate_user"
        /\ HasFailed(f, "check_account_status")
        /\ "verify_password" \in flow[f].done
        /\ flow[f].pc = "done" /\ ~flow[f].result.success
        /\ documents = <<>>

\* an authentication went through: token record and session written
C29_WitnessGranted ==
    \E f \in FlowIds :
        /\ flow[f].pc = "done" /\ flow[f].result.success
        /\ "access_token" \in flow[f].result.data
        /\ Written(f, "auth_tokens") # {} /\ Written(f, "user_sessions") # {}

====
